---- MODULE Spec2Model ----
(***************************************************************************)
(* Search-index subsystem of the PDF annotator backend.                    *)
(*                                                                         *)
(* The state is the three MongoDB collections the controllers touch        *)
(* (PDF, Highlight, SearchIndex) plus one record per in-flight handler     *)
(* invocation.  A handler is an async function: the code between two       *)
(* awaits runs without interruption on Node's single thread, so every      *)
(* action below is one awaited collection operation together with the      *)
(* synchronous code that follows it up to the next await (or up to the     *)
(* response).  Every awaited collection operation may reject.              *)
(***************************************************************************)
EXTENDS Integers, Sequences, FiniteSets, TLC

\* ------------------------------------------------------------------ bounds
MaxSlots == 2        \* handler invocations in flight at the same time
MaxHighlights == 1   \* highlight uuids handed out in one behaviour
MaxInserts == 2      \* insert operations whose documents are in SearchIndex together

\* ------------------------------------------------------- program constants
PageSize == 20       \* .limit(20) of the simple search
SuggestLimit == 5    \* .limit(5) / .slice(0, 5) of getSuggestions
MinQueryLen == 2     \* query.trim().length < 2

\* ---------------------------------------------------------------- strings
\* A string is a sequence of one-character strings.
Lower(c) ==
  CASE c = "A" -> "a"
    [] c = "B" -> "b"
    [] OTHER -> c

IsSpace(c) == c = " "

RECURSIVE TrimStart(_)
TrimStart(s) ==
  IF s = <<>> THEN s
  ELSE IF IsSpace(Head(s)) THEN TrimStart(Tail(s)) ELSE s

RECURSIVE TrimEnd(_)
TrimEnd(s) ==
  IF s = <<>> THEN s
  ELSE IF IsSpace(s[Len(s)]) THEN TrimEnd(SubSeq(s, 1, Len(s) - 1)) ELSE s

\* String.prototype.trim
Trim(s) == TrimEnd(TrimStart(s))

\* The query is handed to MongoDB as { $regex: query, $options: 'i' }: it is
\* a pattern, not a literal.  Of the pattern language the model keeps the
\* ordinary character (compared case-insensitively), the wildcard "." and
\* the group opener "(", which no string of the model closes, so that a
\* pattern containing it does not compile.
RegexValid(q) == \A i \in 1..Len(q) : q[i] # "("

CharMatches(p, c) == p = "." \/ Lower(p) = Lower(c)

MatchesAt(content, q, k) ==
  \A i \in 1..Len(q) : CharMatches(q[i], content[k + i - 1])

\* content: { $regex: q, $options: 'i' } for a pattern that compiles
RegexMatch(content, q) ==
  \E k \in 1..(Len(content) - Len(q) + 1) : MatchesAt(content, q, k)

\* ------------------------------------------------------------------- data
Users == {"u1", "u2"}        \* req.user._id values the auth middleware supplies
NoUser == "none"

\* Documents uploaded before the behaviour starts (uuid, owner, name).
Pdf1 == [uuid |-> "d1", userId |-> "u1", originalName |-> "one.pdf"]
Pdf2 == [uuid |-> "d2", userId |-> "u2", originalName |-> "two.pdf"]
NoPdf == "none"

TextAb == <<"a", "b">>       \* highlightedText values (trimmed, non-empty)
TextBc == <<"B", "c">>

\* Owner and body (pdfUuid, pageNumber, highlightedText) of the create
\* requests: one per owner on the owner's document, one on a document of
\* somebody else.
CreateInputs ==
  {<<"u1", "d1", 1, TextAb>>, <<"u2", "d2", 1, TextBc>>, <<"u1", "d2", 1, TextAb>>}

\* Owner and :uuid of the indexPdf requests, chosen likewise.
IndexPdfInputs == {<<"u1", "d1">>, <<"u2", "d2">>, <<"u1", "d2">>}

\* Query strings; a request may also carry no query at all.
Queries == {<<" ", "a">>, TextAb, <<"b", ".">>, <<"s", "a">>}

\* Query parts of the requests the model issues: whether there is a query,
\* and the query.
QueryInputs == {<<FALSE, <<>> >>} \cup {<<TRUE, q>> : q \in Queries}

\* The simple search: how the handler is invoked (see search), then
\* req.query: the query part, pdfUuid, contentType.
SearchInputs ==
  {<<FALSE, i[1], i[2], NoPdf, "all">> : i \in QueryInputs}
    \cup {<<FALSE, TRUE, TextAb, "d1", "annotation">>,
          <<TRUE, TRUE, TextAb, NoPdf, "all">>}

\* req.body of the advanced search: the query part, pdfUuids, contentTypes,
\* dateFrom, dateTo, pageNumber, fuzzy, page, limit (0: date or page absent).
AdvancedInputs ==
  {<<i[1], i[2], {}, {"all"}, 0, 0, 0, FALSE, 1, 20>> : i \in QueryInputs}
    \cup {<<TRUE, TextAb, {"d1"}, {"annotation"}, 0, 0, 1, f, 1, 20>> : f \in BOOLEAN}

\* The four sentences indexPdf stores, each shortened to its leading word.
dummyContent ==
  << <<"t", "h", "i", "s">>,
     <<"i", "m", "p", "o", "r", "t", "a", "n", "t">>,
     <<"s", "a", "m", "p", "l", "e">>,
     <<"a", "d", "d", "i", "t", "i", "o", "n", "a", "l">> >>

UnknownPdf == "Unknown PDF"

\* req.body.position values: the one every create request of the model
\* carries, and another one an update may carry (0: no position)
PositionA == 1
PositionB == 2

NoHighlight ==
  [uuid |-> 0, pdfUuid |-> NoPdf, userId |-> NoUser, pageNumber |-> 0,
   highlightedText |-> <<>>, position |-> 0]

\* ------------------------------------------------------------------ state
VARIABLES
  pdfs,        \* PDF collection
  highlights,  \* Highlight collection
  index,       \* SearchIndex collection (the Content Store)
  req,         \* slot -> handler invocation (arguments, locals, position, response)
  nextH,       \* next uuid uuidv4() hands out
  removed      \* history: the (owner, highlight uuid) pairs whose unit a
               \* removeHighlightIndex call deleted and for which no unit has
               \* been inserted since

vars == <<pdfs, highlights, index, req, nextH, removed>>

Slots == 1..MaxSlots

\* A response: status 0 means none was sent.  raised marks an error that left
\* the handler (next(error)) instead of being answered or swallowed.
NoResp ==
  [status |-> 0, error |-> "", results |-> <<>>, suggestions |-> <<>>,
   needsIndexing |-> FALSE, total |-> 0, pages |-> 0, current |-> 0,
   hasFuzzy |-> FALSE, fuzzy |-> FALSE, raised |-> FALSE]

\* Arguments and locals of one handler invocation.
\*   hl               highlight the invocation creates / indexes / deletes
\*   thisBound        whether `this` is the controller inside the handler
\*   totalIndexCount  local of search (-1: not read yet)
\*   todo             highlights autoIndexHighlights still has to visit
\*   results, total   locals of the search handlers
\*   ops              SearchIndex operations the invocation has issued
\*   rejected         whether a collection operation it awaited has rejected
\*   highlightUuids   req.body.highlightUuids of bulkDelete
Idle ==
  [kind |-> "idle", pc |-> "idle", user |-> NoUser, hl |-> NoHighlight,
   hasQuery |-> FALSE, query |-> <<>>, pdfUuid |-> NoPdf, contentType |-> "all",
   pdfUuids |-> {}, contentTypes |-> {"all"}, dateFrom |-> 0, dateTo |-> 0,
   pageNumber |-> 0, fuzzy |-> FALSE, page |-> 1, limit |-> PageSize,
   thisBound |-> FALSE, totalIndexCount |-> -1, todo |-> <<>>,
   results |-> <<>>, total |-> -1, didFind |-> FALSE, resp |-> NoResp,
   ops |-> 0, rejected |-> FALSE, highlightUuids |-> {}]

Init ==
  /\ pdfs = {Pdf1, Pdf2}
  /\ highlights = {}
  /\ index = {}
  /\ req = [r \in Slots |-> Idle]
  /\ nextH = 1
  /\ removed = {}

\* ----------------------------------------------------- collection helpers
\* variant: the filter leaves out userId
UnitsOfHighlight_AnyOwner(hid, u) ==
  {x \in index : x.highlightId = hid}

\* SearchIndex.findOne({ highlightId, userId })
UnitsOfHighlight(hid, u) ==
  {x \in index : x.highlightId = hid /\ x.userId = u}

\* _id of the k-th document (from 0) of insert operation n: unique, and
\* increasing in insertion order like an ObjectId
ObjectId(n, k) == n * Len(dummyContent) + k

\* variant: the page number of the highlight is not copied
AnnotationUnit_PageZero(h, u, n) ==
  [id |-> ObjectId(n, 0), pdfUuid |-> h.pdfUuid, userId |-> u, pageNumber |-> 0,
   content |-> h.highlightedText, contentType |-> "annotation",
   highlightId |-> h.uuid, position |-> h.position, createdAt |-> n]

\* document built by SearchIndex.create in indexHighlight / autoIndexHighlights
AnnotationUnit(h, u, n) ==
  [id |-> ObjectId(n, 0), pdfUuid |-> h.pdfUuid, userId |-> u, pageNumber |-> h.pageNumber,
   content |-> h.highlightedText, contentType |-> "annotation",
   highlightId |-> h.uuid, position |-> h.position, createdAt |-> n]

\* res.status(s).json(...) / res.json(...)
Respond(s, e) == [NoResp EXCEPT !.status = s, !.error = e]

\* next(error): the error leaves the handler for the transport layer
NextError == [NoResp EXCEPT !.status = 500, !.error = "next(error)", !.raised = TRUE]

\* a library call returned to its caller without throwing
Returned == [NoResp EXCEPT !.error = "returned"]

Finish(r, resp) == [req[r] EXCEPT !.pc = "done", !.resp = resp]

\* An awaited collection operation may reject (StorageFailure): the
\* invocation q goes on in the catch block that encloses the await.
Rejected(q) == [q EXCEPT !.rejected = TRUE]

Free(r) == req[r].pc = "idle"

\* A new invocation takes the first free slot (slots are interchangeable).
CanStart(r) ==
  /\ Free(r)
  /\ \A r2 \in Slots : r2 < r => ~Free(r2)

\* Timestamp of the next insert operation: later than every stored createdAt.
\* (_id and createdAt only have to order and tell apart the stored units.)
nextId ==
  IF index = {} THEN 1
  ELSE 1 + (CHOOSE n \in {x.createdAt : x \in index} :
              \A x \in index : x.createdAt <= n)

\* One more insert operation can be carried out within the bound.
CanInsert == nextId <= MaxInserts

Store == <<pdfs, highlights, index, nextH, removed>>

\* The promise of a finished invocation has settled and its frame is gone.
settle(r) ==
  /\ req[r].pc = "done"
  /\ req' = [req EXCEPT ![r] = Idle]
  /\ UNCHANGED Store

\* ------------------------------------------------- HighlightController.create
create(r, u, d, p, t) ==
  /\ CanStart(r)
  /\ req' = [req EXCEPT ![r] =
       [Idle EXCEPT !.kind = "create", !.pc = "create_findPdf", !.user = u,
                    !.hl = [NoHighlight EXCEPT !.pdfUuid = d, !.userId = u,
                              !.pageNumber = p, !.highlightedText = t,
                              !.position = PositionA]]]
  /\ UNCHANGED Store

\* variant: the document is looked up by uuid alone
create_findPdf_AnyOwner(r) ==
  /\ req[r].pc = "create_findPdf"
  /\ \/ /\ req' = [req EXCEPT ![r] = Rejected(Finish(r, NextError))]
     \/ /\ IF \E x \in pdfs : x.uuid = req[r].hl.pdfUuid
           THEN req' = [req EXCEPT ![r].pc = "create_save"]
           ELSE req' = [req EXCEPT ![r] = Finish(r, Respond(404, "PDF not found"))]
  /\ UNCHANGED Store

\* await PDF.findOne({ uuid: pdfUuid, userId: req.user._id })
create_findPdf(r) ==
  /\ req[r].pc = "create_findPdf"
  /\ \/ /\ req' = [req EXCEPT ![r] = Rejected(Finish(r, NextError))]
     \/ /\ IF \E x \in pdfs : x.uuid = req[r].hl.pdfUuid /\ x.userId = req[r].user
           THEN req' = [req EXCEPT ![r].pc = "create_save"]
           ELSE req' = [req EXCEPT ![r] = Finish(r, Respond(404, "PDF not found"))]
  /\ UNCHANGED Store

\* new Highlight({ uuid: uuidv4(), ... }); await highlight.save(); then the
\* call of searchController.indexHighlight runs up to its first await
create_save(r) ==
  /\ req[r].pc = "create_save"
  /\ \/ /\ req' = [req EXCEPT ![r] = Rejected(Finish(r, NextError))]
        /\ UNCHANGED <<highlights, nextH>>
     \/ /\ nextH <= MaxHighlights
        /\ LET h == [req[r].hl EXCEPT !.uuid = nextH]
           IN /\ highlights' = highlights \cup {h}
              /\ req' = [req EXCEPT ![r].hl = h, ![r].pc = "indexHighlight_findOne"]
        /\ nextH' = nextH + 1
  /\ UNCHANGED <<pdfs, index, removed>>

\* -------------------------------------------- SearchController.indexHighlight
\* A call of the exported method by another trigger than create (a retry),
\* for a highlight of the collection and its owner.
indexHighlight(r, h) ==
  /\ CanStart(r)
  /\ h \in highlights
  /\ req' = [req EXCEPT ![r] =
       [Idle EXCEPT !.kind = "indexHighlight", !.pc = "indexHighlight_findOne",
                    !.user = h.userId, !.hl = h]]
  /\ UNCHANGED Store

\* What the caller of indexHighlight sees when the method returns: create
\* answers 201, a direct caller just gets control back.
AfterIndexHighlight(r) ==
  IF req[r].kind = "create"
  THEN Respond(201, "Highlight created successfully")
  ELSE Returned

\* variant: the result of the lookup is not tested
indexHighlight_findOne_NoTest(r) ==
  /\ req[r].pc = "indexHighlight_findOne"
  /\ \/ /\ req' = [req EXCEPT ![r] =
             Rejected([Finish(r, AfterIndexHighlight(r)) EXCEPT !.ops = @ + 1])]
     \/ /\ req' = [req EXCEPT ![r].pc = "indexHighlight_create", ![r].ops = @ + 1]
  /\ UNCHANGED Store

\* const existing = await SearchIndex.findOne({ highlightId, userId });
\* if (existing) return;          (a rejection is caught and logged)
indexHighlight_findOne(r) ==
  /\ req[r].pc = "indexHighlight_findOne"
  /\ \/ /\ req' = [req EXCEPT ![r] =
             Rejected([Finish(r, AfterIndexHighlight(r)) EXCEPT !.ops = @ + 1])]
     \/ /\ IF UnitsOfHighlight(req[r].hl.uuid, req[r].user) # {}
           THEN req' = [req EXCEPT ![r] =
                  [Finish(r, AfterIndexHighlight(r)) EXCEPT !.ops = @ + 1]]
           ELSE req' = [req EXCEPT ![r].pc = "indexHighlight_create",
                                   ![r].ops = @ + 1]
  /\ UNCHANGED Store

\* variant: a rejected insert is not caught and reaches the caller's catch
indexHighlight_create_Rethrow(r) ==
  /\ req[r].pc = "indexHighlight_create"
  /\ \/ /\ UNCHANGED <<index, removed>>
        /\ req' = [req EXCEPT ![r] =
             Rejected([Finish(r, NextError) EXCEPT !.ops = @ + 1])]
     \/ /\ CanInsert
        /\ index' = index \cup {AnnotationUnit(req[r].hl, req[r].user, nextId)}
        /\ removed' = removed \ {<<req[r].user, req[r].hl.uuid>>}
        /\ req' = [req EXCEPT ![r] =
             [Finish(r, AfterIndexHighlight(r)) EXCEPT !.ops = @ + 1]]
  /\ UNCHANGED <<pdfs, highlights, nextH>>

\* await SearchIndex.create({ ... contentType: 'annotation', highlightId })
indexHighlight_create(r) ==
  /\ req[r].pc = "indexHighlight_create"
  /\ \/ /\ UNCHANGED <<index, removed>>
        /\ req' = [req EXCEPT ![r] =
             Rejected([Finish(r, AfterIndexHighlight(r)) EXCEPT !.ops = @ + 1])]
     \/ /\ CanInsert
        /\ index' = index \cup {AnnotationUnit(req[r].hl, req[r].user, nextId)}
        /\ removed' = removed \ {<<req[r].user, req[r].hl.uuid>>}
        /\ req' = [req EXCEPT ![r] =
             [Finish(r, AfterIndexHighlight(r)) EXCEPT !.ops = @ + 1]]
  /\ UNCHANGED <<pdfs, highlights, nextH>>

\* ------------------------------------------------- HighlightController.delete
\* The uuid in the path is any uuid ever handed out.
delete(r, u, hid) ==
  /\ CanStart(r)
  /\ hid \in 1..(nextH - 1)
  /\ req' = [req EXCEPT ![r] =
       [Idle EXCEPT !.kind = "delete", !.pc = "delete_findOneAndDelete",
                    !.user = u, !.hl = [NoHighlight EXCEPT !.uuid = hid]]]
  /\ UNCHANGED Store

\* const highlight = await Highlight.findOneAndDelete({ uuid, userId });
\* then removeHighlightIndex(highlight.uuid, ...) is called BEFORE the
\* `if (!highlight)` test: with no match, highlight is null, evaluating
\* highlight.uuid throws and the catch block hands the error to next().
delete_findOneAndDelete(r) ==
  /\ req[r].pc = "delete_findOneAndDelete"
  /\ \/ /\ req' = [req EXCEPT ![r] = Rejected(Finish(r, NextError))]
        /\ UNCHANGED highlights
     \/ /\ LET found == {h \in highlights :
                           h.uuid = req[r].hl.uuid /\ h.userId = req[r].user}
           IN IF found = {}
              THEN /\ req' = [req EXCEPT ![r] = Finish(r, NextError)]
                   /\ UNCHANGED highlights
              ELSE /\ highlights' = highlights \ found
                   /\ req' = [req EXCEPT ![r].pc = "removeHighlightIndex_deleteOne"]
  /\ UNCHANGED <<pdfs, index, nextH, removed>>

\* ------------------------------------------------- HighlightController.update
\* req.body of the update requests: highlightedText and position, each of
\* which may be absent (<<>>, 0); color and boundingBox are not indexed and
\* are left out
UpdateInputs == {<<TextBc, 0>>, <<<<>>, PositionB>>, <<TextBc, PositionB>>}

\* updateData is built from the fields the body carries
update(r, u, hid, t, pos) ==
  /\ CanStart(r)
  /\ hid \in 1..(nextH - 1)
  /\ req' = [req EXCEPT ![r] =
       [Idle EXCEPT !.kind = "update", !.pc = "update_findOneAndUpdate",
                    !.user = u,
                    !.hl = [NoHighlight EXCEPT !.uuid = hid, !.highlightedText = t,
                                               !.position = pos]]]
  /\ UNCHANGED Store

\* const highlight = await Highlight.findOneAndUpdate({ uuid, userId },
\*   updateData, { new: true }); the handler issues no SearchIndex operation
update_findOneAndUpdate(r) ==
  /\ req[r].pc = "update_findOneAndUpdate"
  /\ \/ /\ req' = [req EXCEPT ![r] = Rejected(Finish(r, NextError))]
        /\ UNCHANGED highlights
     \/ /\ LET found == {h \in highlights :
                           h.uuid = req[r].hl.uuid /\ h.userId = req[r].user}
               new(h) == [h EXCEPT
                            !.highlightedText =
                              IF req[r].hl.highlightedText # <<>>
                              THEN req[r].hl.highlightedText ELSE @,
                            !.position =
                              IF req[r].hl.position # 0 THEN req[r].hl.position ELSE @]
           IN IF found = {}
              THEN /\ req' = [req EXCEPT ![r] =
                          Finish(r, Respond(404, "Highlight not found"))]
                   /\ UNCHANGED highlights
              ELSE /\ highlights' = (highlights \ found) \cup {new(h) : h \in found}
                   /\ req' = [req EXCEPT ![r] =
                          Finish(r, Respond(200, "Highlight updated successfully"))]
  /\ UNCHANGED <<pdfs, index, nextH, removed>>

\* -------------------------------------- SearchController.removeHighlightIndex
\* A call of the exported method by a caller other than delete.
removeHighlightIndex(r, u, hid) ==
  /\ CanStart(r)
  /\ hid \in 1..(nextH - 1)
  /\ req' = [req EXCEPT ![r] =
       [Idle EXCEPT !.kind = "removeHighlightIndex",
                    !.pc = "removeHighlightIndex_deleteOne",
                    !.user = u, !.hl = [NoHighlight EXCEPT !.uuid = hid]]]
  /\ UNCHANGED Store

AfterRemoveHighlightIndex(r) ==
  IF req[r].kind = "delete"
  THEN Respond(200, "Highlight deleted successfully")
  ELSE Returned

\* variant: nothing is deleted
DeleteOneOutcomes_None(matching) == {index}

\* SearchIndex.deleteOne(filter): removes one matching document, whichever
\* the server meets first, or none when nothing matches.
DeleteOneOutcomes(matching) ==
  IF matching = {} THEN {index} ELSE {index \ {x} : x \in matching}

\* variant: the filter is the owner alone and every match is deleted
removeHighlightIndex_deleteOne_OwnerWide(r) ==
  /\ req[r].pc = "removeHighlightIndex_deleteOne"
  /\ \/ /\ UNCHANGED <<index, removed>>
        /\ req' = [req EXCEPT ![r] =
             Rejected([Finish(r, AfterRemoveHighlightIndex(r)) EXCEPT !.ops = @ + 1])]
     \/ /\ index' = {x \in index : x.userId # req[r].user}
        /\ removed' = IF UnitsOfHighlight(req[r].hl.uuid, req[r].user) = {}
                      THEN removed
                      ELSE removed \cup {<<req[r].user, req[r].hl.uuid>>}
        /\ req' = [req EXCEPT ![r] =
             [Finish(r, AfterRemoveHighlightIndex(r)) EXCEPT !.ops = @ + 1]]
  /\ UNCHANGED <<pdfs, highlights, nextH>>

\* await SearchIndex.deleteOne({ highlightId, userId });  (rejection caught)
removeHighlightIndex_deleteOne(r) ==
  /\ req[r].pc = "removeHighlightIndex_deleteOne"
  /\ \/ /\ UNCHANGED <<index, removed>>
        /\ req' = [req EXCEPT ![r] =
             Rejected([Finish(r, AfterRemoveHighlightIndex(r)) EXCEPT !.ops = @ + 1])]
     \/ /\ index' \in DeleteOneOutcomes(UnitsOfHighlight(req[r].hl.uuid, req[r].user))
        /\ removed' = IF UnitsOfHighlight(req[r].hl.uuid, req[r].user) = {}
                      THEN removed
                      ELSE removed \cup {<<req[r].user, req[r].hl.uuid>>}
        /\ req' = [req EXCEPT ![r] =
             [Finish(r, AfterRemoveHighlightIndex(r)) EXCEPT !.ops = @ + 1]]
  /\ UNCHANGED <<pdfs, highlights, nextH>>

\* --------------------------------------------- HighlightController.bulkDelete
\* if (!Array.isArray(highlightUuids) || highlightUuids.length === 0)
\*   return res.status(400)...     (the body carries a list of uuids or none)
bulkDelete(r, u, uuids) ==
  /\ CanStart(r)
  /\ uuids \subseteq 1..(nextH - 1)
  /\ LET q == [Idle EXCEPT !.kind = "bulkDelete", !.user = u, !.highlightUuids = uuids]
     IN IF uuids = {}
        THEN req' = [req EXCEPT ![r] =
               [q EXCEPT !.pc = "done",
                         !.resp = Respond(400, "Highlight UUIDs array is required")]]
        ELSE req' = [req EXCEPT ![r] = [q EXCEPT !.pc = "bulkDelete_deleteMany"]]
  /\ UNCHANGED Store

\* const result = await Highlight.deleteMany({ uuid: { $in }, userId });
\* res.json({ deletedCount }): SearchIndex is not touched
bulkDelete_deleteMany(r) ==
  /\ req[r].pc = "bulkDelete_deleteMany"
  /\ \/ /\ req' = [req EXCEPT ![r] = Rejected(Finish(r, NextError))]
        /\ UNCHANGED highlights
     \/ /\ LET found == {h \in highlights : h.uuid \in req[r].highlightUuids
                                             /\ h.userId = req[r].user}
           IN /\ highlights' = highlights \ found
              /\ req' = [req EXCEPT ![r] =
                   Finish(r, [Respond(200, "highlights deleted successfully")
                                EXCEPT !.total = Cardinality(found)])]
  /\ UNCHANGED <<pdfs, index, nextH, removed>>

\* ------------------------------------------------------- PDFController.delete
PDFController_delete(r, u, d) ==
  /\ CanStart(r)
  /\ req' = [req EXCEPT ![r] =
       [Idle EXCEPT !.kind = "PDFController_delete",
                    !.pc = "PDFController_delete_findOne", !.user = u, !.pdfUuid = d]]
  /\ UNCHANGED Store

\* const pdf = await PDF.findOne({ uuid, userId }); if (!pdf) return 404
PDFController_delete_findOne(r) ==
  /\ req[r].pc = "PDFController_delete_findOne"
  /\ \/ /\ req' = [req EXCEPT ![r] = Rejected(Finish(r, NextError))]
     \/ /\ IF \E x \in pdfs : x.uuid = req[r].pdfUuid /\ x.userId = req[r].user
           THEN req' = [req EXCEPT ![r].pc = "PDFController_delete_deleteMany"]
           ELSE req' = [req EXCEPT ![r] = Finish(r, Respond(404, "PDF not found"))]
  /\ UNCHANGED Store

\* await Highlight.deleteMany({ pdfUuid: pdf.uuid, userId });  then
\* fs.unlink(pdf.filePath) in its own try/catch (no collection is involved)
PDFController_delete_deleteMany(r) ==
  /\ req[r].pc = "PDFController_delete_deleteMany"
  /\ \/ /\ req' = [req EXCEPT ![r] = Rejected(Finish(r, NextError))]
        /\ UNCHANGED highlights
     \/ /\ highlights' = {h \in highlights :
                            ~(h.pdfUuid = req[r].pdfUuid /\ h.userId = req[r].user)}
        /\ req' = [req EXCEPT ![r].pc = "PDFController_delete_deleteOne"]
  /\ UNCHANGED <<pdfs, index, nextH, removed>>

\* await PDF.deleteOne({ _id: pdf._id }); res.json(...): SearchIndex is not
\* touched
PDFController_delete_deleteOne(r) ==
  /\ req[r].pc = "PDFController_delete_deleteOne"
  /\ \/ /\ req' = [req EXCEPT ![r] = Rejected(Finish(r, NextError))]
        /\ UNCHANGED pdfs
     \/ /\ pdfs' = {x \in pdfs : x.uuid # req[r].pdfUuid}
        /\ req' = [req EXCEPT ![r] = Finish(r, Respond(200, "PDF deleted successfully"))]
  /\ UNCHANGED <<highlights, index, nextH, removed>>

\* --------------------------------------------------- SearchController.search
Min(a, b) == IF a < b THEN a ELSE b

\* Math.ceil(a / b) for b > 0
Ceil(a, b) == (a + b - 1) \div b

\* .limit(n)
Take(s, n) == SubSeq(s, 1, Min(n, Len(s)))

\* .sort({ createdAt: -1 }): every listing of S by descending createdAt;
\* documents of one insertMany share a createdAt and may come in any order.
RECURSIVE SortedSeqs(_)
SortedSeqs(S) ==
  IF S = {} THEN {<<>>}
  ELSE LET top == {x \in S : \A y \in S : y.createdAt <= x.createdAt}
       IN UNION { {<<x>> \o t : t \in SortedSeqs(S \ {x})} : x \in top }

\* Highlight.find({ userId }) in collection order (the order of the saves)
RECURSIVE ByUuid(_)
ByUuid(S) ==
  IF S = {} THEN <<>>
  ELSE LET h == CHOOSE x \in S : \A y \in S : x.uuid <= y.uuid
       IN <<h>> \o ByUuid(S \ {h})

\* variant: the filter leaves out userId
SimpleFilter_NoOwner(x, q) ==
  /\ RegexMatch(x.content, q.query)
  /\ (q.pdfUuid # NoPdf => x.pdfUuid = q.pdfUuid)
  /\ (q.contentType # "all" => x.contentType = q.contentType)

\* searchFilter of search: owner + pattern + optional pdfUuid + contentType
SimpleFilter(x, q) ==
  /\ x.userId = q.user
  /\ RegexMatch(x.content, q.query)
  /\ (q.pdfUuid # NoPdf => x.pdfUuid = q.pdfUuid)
  /\ (q.contentType # "all" => x.contentType = q.contentType)

\* variant: the length is taken without trimming
InvalidQuery_NoTrim(hasQuery, query) ==
  ~hasQuery \/ Len(query) < MinQueryLen

\* !query || query.trim().length < 2
InvalidQuery(hasQuery, query) ==
  ~hasQuery \/ query = <<>> \/ Len(Trim(query)) < MinQueryLen

\* variant: the names are used although the lookup rejected
PdfName_IgnoreFailure(u, d, lookupFailed) ==
  IF \E x \in pdfs : x.uuid = d /\ x.userId = u
  THEN (CHOOSE x \in pdfs : x.uuid = d /\ x.userId = u).originalName
  ELSE UnknownPdf

\* pdfMap[result.pdfUuid] || 'Unknown PDF', pdfMap filled from
\* PDF.find({ uuid: { $in: pdfUuids }, userId }) unless that lookup rejected
PdfName(u, d, lookupFailed) ==
  IF ~lookupFailed /\ \E x \in pdfs : x.uuid = d /\ x.userId = u
  THEN (CHOOSE x \in pdfs : x.uuid = d /\ x.userId = u).originalName
  ELSE UnknownPdf

\* query.split(' ')
RECURSIVE SplitSpace(_, _, _)
SplitSpace(s, cur, acc) ==
  IF s = <<>> THEN Append(acc, cur)
  ELSE IF Head(s) = " "
       THEN SplitSpace(Tail(s), <<>>, Append(acc, cur))
       ELSE SplitSpace(Tail(s), Append(cur, Head(s)), acc)

\* '<mark>' and '</mark>' of the replacement '<mark>$1</mark>'
MarkOpen == <<"<", "m", "a", "r", "k", ">">>
MarkClose == <<"<", "/", "m", "a", "r", "k", ">">>

\* highlighted.replace(new RegExp(`(${term})`, 'gi'), '<mark>$1</mark>'):
\* the matches are taken from left to right without overlap, in whatever
\* the string holds at that point
RECURSIVE ReplaceAll(_, _)
ReplaceAll(s, term) ==
  IF s = <<>> THEN <<>>
  ELSE IF Len(term) <= Len(s) /\ MatchesAt(s, term, 1)
       THEN MarkOpen \o SubSeq(s, 1, Len(term)) \o MarkClose
              \o ReplaceAll(SubSeq(s, Len(term) + 1, Len(s)), term)
       ELSE <<Head(s)>> \o ReplaceAll(Tail(s), term)

\* terms.forEach(term => { highlighted = highlighted.replace(...) })
RECURSIVE ReplaceTerms(_, _)
ReplaceTerms(highlighted, terms) ==
  IF terms = <<>> THEN highlighted
  ELSE ReplaceTerms(ReplaceAll(highlighted, Head(terms)), Tail(terms))

\* function highlightSearchTerms(content, query)
highlightSearchTerms(content, query) ==
  ReplaceTerms(content,
               SelectSeq(SplitSpace(query, <<>>, <<>>), LAMBDA term : Len(term) > 1))

\* results.map(result => ({ id, pdfUuid, pdfName, ... }))
FormatResults(results, u, lookupFailed, query) ==
  [i \in 1..Len(results) |->
     [id |-> results[i].id, pdfUuid |-> results[i].pdfUuid,
      pdfName |-> PdfName(u, results[i].pdfUuid, lookupFailed),
      pageNumber |-> results[i].pageNumber, content |-> results[i].content,
      highlightedContent |-> highlightSearchTerms(results[i].content, query),
      contentType |-> results[i].contentType, score |-> 1,
      highlightId |-> results[i].highlightId,
      position |-> results[i].position,
      createdAt |-> results[i].createdAt]]

InvalidQueryResponse ==
  [Respond(400, "Search query must be at least 2 characters") EXCEPT !.current = 1]

\* variant: the error body carries no pagination object
SearchFailed_NoPagination == Respond(500, "Search failed")

SearchFailed == [Respond(500, "Search failed") EXCEPT !.current = 1]

NeedsIndexing == [Respond(200, "") EXCEPT !.needsIndexing = TRUE, !.current = 1]

SearchResponse(results, u, lookupFailed, query) ==
  [Respond(200, "") EXCEPT
     !.results = FormatResults(results, u, lookupFailed, query),
     !.current = 1, !.pages = Ceil(Len(results), PageSize),
     !.total = Len(results)]

\* The handler up to its first await.  bound tells how it was invoked:
\* FALSE for the route registration router.get('/search', auth,
\* searchController.search), which passes the bare function, TRUE for a call
\* on the controller object.
search(r, u, bound, hasQuery, query, d, ct) ==
  /\ CanStart(r)
  /\ LET q == [Idle EXCEPT !.kind = "search", !.user = u, !.thisBound = bound,
                           !.hasQuery = hasQuery, !.query = query,
                           !.pdfUuid = d, !.contentType = ct]
     IN IF InvalidQuery(hasQuery, query)
        THEN req' = [req EXCEPT ![r] =
               [q EXCEPT !.pc = "done", !.resp = InvalidQueryResponse]]
        ELSE req' = [req EXCEPT ![r] = [q EXCEPT !.pc = "search_count"]]
  /\ UNCHANGED Store

\* const totalIndexCount = await SearchIndex.countDocuments({ userId });
\* if it is 0 the handler evaluates this.autoIndexHighlights(...): with
\* `this` undefined that throws a TypeError into the catch block.
search_count(r) ==
  /\ req[r].pc = "search_count"
  /\ \/ /\ req' = [req EXCEPT ![r] =
             Rejected([Finish(r, SearchFailed) EXCEPT !.ops = @ + 1])]
     \/ /\ LET n == Cardinality({x \in index : x.userId = req[r].user})
               q == [req[r] EXCEPT !.totalIndexCount = n, !.ops = @ + 1]
           IN IF n = 0
              THEN IF req[r].thisBound
                   THEN req' = [req EXCEPT ![r] =
                          [q EXCEPT !.pc = "autoIndexHighlights_find"]]
                   ELSE req' = [req EXCEPT ![r] =
                          [q EXCEPT !.pc = "done", !.resp = SearchFailed]]
              ELSE req' = [req EXCEPT ![r] = [q EXCEPT !.pc = "search_find"]]
  /\ UNCHANGED Store

\* const results = await SearchIndex.find(searchFilter)
\*   .sort({ createdAt: -1 }).limit(20);
\* the server rejects a pattern that does not compile
search_find(r) ==
  /\ req[r].pc = "search_find"
  /\ \/ /\ req' = [req EXCEPT ![r] =
             Rejected([Finish(r, SearchFailed) EXCEPT !.ops = @ + 1])]
     \/ /\ IF ~RegexValid(req[r].query)
           THEN req' = [req EXCEPT ![r] =
                  [Finish(r, SearchFailed) EXCEPT !.ops = @ + 1]]
           ELSE \E s \in SortedSeqs({x \in index : SimpleFilter(x, req[r])}) :
                  LET q == [req[r] EXCEPT !.results = Take(s, PageSize),
                                          !.ops = @ + 1]
                  IN IF q.results = <<>>
                     THEN req' = [req EXCEPT ![r] =
                            [q EXCEPT !.pc = "done",
                                      !.resp = SearchResponse(<<>>, q.user, FALSE, q.query)]]
                     ELSE req' = [req EXCEPT ![r] = [q EXCEPT !.pc = "search_pdfFind"]]
  /\ UNCHANGED Store

\* const pdfs = await PDF.find({ uuid: { $in: pdfUuids }, userId }) inside
\* its own try/catch, then the response
search_pdfFind(r) ==
  /\ req[r].pc = "search_pdfFind"
  /\ \/ /\ req' = [req EXCEPT ![r] =
             Rejected(Finish(r, SearchResponse(req[r].results, req[r].user, TRUE,
                                              req[r].query)))]
     \/ /\ req' = [req EXCEPT ![r] =
             Finish(r, SearchResponse(req[r].results, req[r].user, FALSE,
                                     req[r].query))]
  /\ UNCHANGED Store

\* ----------------------------------------- SearchController.autoIndexHighlights
\* const highlights = await Highlight.find({ userId });
\* the whole method body is one try/catch: any rejection ends the run and
\* control returns to search, which answers needsIndexing
autoIndexHighlights_find(r) ==
  /\ req[r].pc = "autoIndexHighlights_find"
  /\ \/ /\ req' = [req EXCEPT ![r] = Rejected(Finish(r, NeedsIndexing))]
     \/ /\ LET todo == ByUuid({h \in highlights : h.userId = req[r].user})
           IN IF todo = <<>>
              THEN req' = [req EXCEPT ![r] = Finish(r, NeedsIndexing)]
              ELSE req' = [req EXCEPT ![r].todo = todo,
                                      ![r].pc = "autoIndexHighlights_findOne"]
  /\ UNCHANGED Store

\* position of the for-loop after the highlight at the head of todo
AfterHighlight(q) ==
  IF Len(q.todo) = 1
  THEN [q EXCEPT !.todo = <<>>, !.pc = "done", !.resp = NeedsIndexing]
  ELSE [q EXCEPT !.todo = Tail(@), !.pc = "autoIndexHighlights_findOne"]

\* const existing = await SearchIndex.findOne({ highlightId, userId });
autoIndexHighlights_findOne(r) ==
  /\ req[r].pc = "autoIndexHighlights_findOne"
  /\ LET q == [req[r] EXCEPT !.ops = @ + 1]
     IN \/ /\ req' = [req EXCEPT ![r] =
                Rejected([q EXCEPT !.pc = "done", !.resp = NeedsIndexing])]
        \/ /\ IF UnitsOfHighlight(Head(q.todo).uuid, q.user) # {}
              THEN req' = [req EXCEPT ![r] = AfterHighlight(q)]
              ELSE req' = [req EXCEPT ![r] =
                     [q EXCEPT !.pc = "autoIndexHighlights_create"]]
  /\ UNCHANGED Store

\* await SearchIndex.create({ ... highlightId: highlight.uuid });
autoIndexHighlights_create(r) ==
  /\ req[r].pc = "autoIndexHighlights_create"
  /\ LET q == [req[r] EXCEPT !.ops = @ + 1]
     IN \/ /\ req' = [req EXCEPT ![r] =
                Rejected([q EXCEPT !.pc = "done", !.resp = NeedsIndexing])]
           /\ UNCHANGED <<index, removed>>
        \/ /\ CanInsert
           /\ index' = index \cup {AnnotationUnit(Head(q.todo), q.user, nextId)}
           /\ removed' = removed \ {<<q.user, Head(q.todo).uuid>>}
           /\ req' = [req EXCEPT ![r] = AfterHighlight(q)]
  /\ UNCHANGED <<pdfs, highlights, nextH>>

\* ------------------------------------------- SearchController.advancedSearch
\* searchFilter of advancedSearch; an absent date or page number is 0
AdvancedFilter(x, q) ==
  /\ x.userId = q.user
  /\ RegexMatch(x.content, q.query)
  /\ (q.pdfUuids # {} => x.pdfUuid \in q.pdfUuids)
  /\ ("all" \notin q.contentTypes => x.contentType \in q.contentTypes)
  /\ (q.dateFrom # 0 => x.createdAt >= q.dateFrom)
  /\ (q.dateTo # 0 => x.createdAt <= q.dateTo)
  /\ (q.pageNumber # 0 => x.pageNumber = q.pageNumber)

\* .skip(n)
Drop(s, n) == SubSeq(s, n + 1, Len(s))

AdvancedFailed == [Respond(500, "Advanced search failed") EXCEPT !.current = 1]

\* variant: the response echoes the fuzzy flag of the request
AdvancedResponse_EchoFuzzy(q, lookupFailed) ==
  [Respond(200, "") EXCEPT
     !.results = FormatResults(q.results, q.user, lookupFailed, q.query),
     !.current = q.page, !.pages = Ceil(q.total, q.limit), !.total = q.total,
     !.hasFuzzy = TRUE, !.fuzzy = q.fuzzy]

\* res.json({ results, pagination, query, fuzzy: false })
AdvancedResponse(q, lookupFailed) ==
  [Respond(200, "") EXCEPT
     !.results = FormatResults(q.results, q.user, lookupFailed, q.query),
     !.current = q.page, !.pages = Ceil(q.total, q.limit), !.total = q.total,
     !.hasFuzzy = TRUE, !.fuzzy = FALSE]

\* The handler up to Promise.all([find, countDocuments]), which issues both
\* reads at once.
advancedSearch(r, u, hasQuery, query, ds, cts, from, to, pn, fz, pg, lim) ==
  /\ CanStart(r)
  /\ LET q == [Idle EXCEPT !.kind = "advancedSearch", !.user = u,
                           !.hasQuery = hasQuery, !.query = query,
                           !.pdfUuids = ds, !.contentTypes = cts,
                           !.dateFrom = from, !.dateTo = to, !.pageNumber = pn,
                           !.fuzzy = fz, !.page = pg, !.limit = lim]
     IN IF InvalidQuery(hasQuery, query)
        THEN req' = [req EXCEPT ![r] =
               [q EXCEPT !.pc = "done", !.resp = InvalidQueryResponse]]
        ELSE req' = [req EXCEPT ![r] = [q EXCEPT !.pc = "advancedSearch_query"]]
  /\ UNCHANGED Store

\* Position after one of the two reads has resolved: once both have, the
\* handler goes on to the name lookup, or answers at once when there is no
\* result to look a name up for.
AfterRead(q) ==
  IF q.didFind /\ q.total >= 0
  THEN IF q.results = <<>>
       THEN [q EXCEPT !.pc = "done", !.resp = AdvancedResponse(q, FALSE)]
       ELSE [q EXCEPT !.pc = "advancedSearch_pdfFind"]
  ELSE q

\* SearchIndex.find(searchFilter).sort({ createdAt: -1 }).skip(skip).limit(limit)
advancedSearch_find(r) ==
  /\ req[r].pc = "advancedSearch_query"
  /\ ~req[r].didFind
  /\ \/ /\ req' = [req EXCEPT ![r] =
             Rejected([Finish(r, AdvancedFailed) EXCEPT !.ops = @ + 1])]
     \/ /\ IF ~RegexValid(req[r].query)
           THEN req' = [req EXCEPT ![r] =
                  [Finish(r, AdvancedFailed) EXCEPT !.ops = @ + 1]]
           ELSE \E s \in SortedSeqs({x \in index : AdvancedFilter(x, req[r])}) :
                  req' = [req EXCEPT ![r] =
                    AfterRead([req[r] EXCEPT
                      !.results = Take(Drop(s, (req[r].page - 1) * req[r].limit),
                                       req[r].limit),
                      !.didFind = TRUE, !.ops = @ + 1])]
  /\ UNCHANGED Store

\* SearchIndex.countDocuments(searchFilter)
advancedSearch_count(r) ==
  /\ req[r].pc = "advancedSearch_query"
  /\ req[r].total < 0
  /\ \/ /\ req' = [req EXCEPT ![r] =
             Rejected([Finish(r, AdvancedFailed) EXCEPT !.ops = @ + 1])]
     \/ /\ IF ~RegexValid(req[r].query)
           THEN req' = [req EXCEPT ![r] =
                  [Finish(r, AdvancedFailed) EXCEPT !.ops = @ + 1]]
           ELSE req' = [req EXCEPT ![r] =
                  AfterRead([req[r] EXCEPT
                    !.total = Cardinality({x \in index : AdvancedFilter(x, req[r])}),
                    !.ops = @ + 1])]
  /\ UNCHANGED Store

\* PDF.find({ uuid: { $in: pdfUuids_results }, userId }) in its own try/catch
advancedSearch_pdfFind(r) ==
  /\ req[r].pc = "advancedSearch_pdfFind"
  /\ \/ /\ req' = [req EXCEPT ![r] =
             Rejected(Finish(r, AdvancedResponse(req[r], TRUE)))]
     \/ /\ req' = [req EXCEPT ![r] = Finish(r, AdvancedResponse(req[r], FALSE))]
  /\ UNCHANGED Store

\* ------------------------------------------- SearchController.getSuggestions
NonWordChars == {" ", ".", "("}     \* the characters of the model outside \w

ToLower(s) == [i \in 1..Len(s) |-> Lower(s[i])]

\* content.split(/\s+/), empty pieces left out (they are never suggested)
RECURSIVE SplitWs(_, _, _)
SplitWs(s, cur, acc) ==
  IF s = <<>> THEN (IF cur = <<>> THEN acc ELSE Append(acc, cur))
  ELSE IF IsSpace(Head(s))
       THEN SplitWs(Tail(s), <<>>, IF cur = <<>> THEN acc ELSE Append(acc, cur))
       ELSE SplitWs(Tail(s), Append(cur, Head(s)), acc)

\* word.replace(/[^\w]/g, '').toLowerCase()
CleanWord(w) == ToLower(SelectSeq(w, LAMBDA c : c \notin NonWordChars))

StartsWith(w, p) == Len(w) >= Len(p) /\ SubSeq(w, 1, Len(p)) = p

InSeq(x, s) == \E i \in 1..Len(s) : s[i] = x

\* suggestions.add(cleanWord) for the words of one content, in order
RECURSIVE AddWords(_, _, _)
AddWords(words, queryLower, acc) ==
  IF words = <<>> THEN acc
  ELSE LET w == CleanWord(Head(words))
       IN AddWords(Tail(words), queryLower,
            IF StartsWith(w, queryLower) /\ Len(w) > Len(queryLower) /\ ~InSeq(w, acc)
            THEN Append(acc, w) ELSE acc)

RECURSIVE Collect(_, _, _)
Collect(results, queryLower, acc) ==
  IF results = <<>> THEN acc
  ELSE Collect(Tail(results), queryLower,
               AddWords(SplitWs(Head(results).content, <<>>, <<>>), queryLower, acc))

\* variant: the collected words are not cut to five
Suggestions_NoSlice(results, query) ==
  LET texts == Collect(results, ToLower(query), <<>>)
  IN [i \in 1..Len(texts) |-> [text |-> texts[i], count |-> 1]]

\* Array.from(suggestions).slice(0, 5).map(text => ({ text, count: 1 }))
Suggestions(results, query) ==
  LET texts == Take(Collect(results, ToLower(query), <<>>), SuggestLimit)
  IN [i \in 1..Len(texts) |-> [text |-> texts[i], count |-> 1]]

RECURSIVE ById(_)
ById(S) ==
  IF S = {} THEN <<>>
  ELSE LET u == CHOOSE x \in S : \A y \in S : x.id <= y.id
       IN <<u>> \o ById(S \ {u})

\* find(filter).limit(5) without a sort: the server returns any five of the
\* matching documents (all of them when there are at most five)
FirstFive(S) ==
  { ById(T) : T \in {T \in SUBSET S : Cardinality(T) = Min(SuggestLimit, Cardinality(S))} }

SuggestFilter(x, q) == x.userId = q.user /\ RegexMatch(x.content, q.query)

\* if (!query || query.length < 2) return res.json({ suggestions: [] });
getSuggestions(r, u, hasQuery, query) ==
  /\ CanStart(r)
  /\ LET q == [Idle EXCEPT !.kind = "getSuggestions", !.user = u,
                           !.hasQuery = hasQuery, !.query = query]
     IN IF ~hasQuery \/ Len(query) < MinQueryLen
        THEN req' = [req EXCEPT ![r] = [q EXCEPT !.pc = "done", !.resp = Respond(200, "")]]
        ELSE req' = [req EXCEPT ![r] = [q EXCEPT !.pc = "getSuggestions_find"]]
  /\ UNCHANGED Store

\* variant: a rejected read is answered with a server error
getSuggestions_find_Error(r) ==
  /\ req[r].pc = "getSuggestions_find"
  /\ \/ /\ req' = [req EXCEPT ![r] =
             Rejected([Finish(r, SearchFailed) EXCEPT !.ops = @ + 1])]
     \/ /\ IF ~RegexValid(req[r].query)
           THEN req' = [req EXCEPT ![r] =
                  [Finish(r, SearchFailed) EXCEPT !.ops = @ + 1]]
           ELSE \E s \in FirstFive({x \in index : SuggestFilter(x, req[r])}) :
                  req' = [req EXCEPT ![r] =
                    [req[r] EXCEPT !.results = s, !.ops = @ + 1, !.pc = "done",
                       !.resp = [Respond(200, "") EXCEPT
                                   !.suggestions = Suggestions(s, req[r].query)]]]
  /\ UNCHANGED Store

\* await SearchIndex.find({ userId, content: { $regex } }).limit(5); a
\* rejection is answered with an empty list
getSuggestions_find(r) ==
  /\ req[r].pc = "getSuggestions_find"
  /\ \/ /\ req' = [req EXCEPT ![r] =
             Rejected([Finish(r, Respond(200, "")) EXCEPT !.ops = @ + 1])]
     \/ /\ IF ~RegexValid(req[r].query)
           THEN req' = [req EXCEPT ![r] =
                  [Finish(r, Respond(200, "")) EXCEPT !.ops = @ + 1]]
           ELSE \E s \in FirstFive({x \in index : SuggestFilter(x, req[r])}) :
                  req' = [req EXCEPT ![r] =
                    [req[r] EXCEPT !.results = s, !.ops = @ + 1, !.pc = "done",
                       !.resp = [Respond(200, "") EXCEPT
                                   !.suggestions = Suggestions(s, req[r].query)]]]
  /\ UNCHANGED Store

\* ------------------------------------------------- SearchController.indexPdf
indexPdf(r, u, d) ==
  /\ CanStart(r)
  /\ req' = [req EXCEPT ![r] =
       [Idle EXCEPT !.kind = "indexPdf", !.pc = "indexPdf_findPdf",
                    !.user = u, !.pdfUuid = d]]
  /\ UNCHANGED Store

IndexPdfFailed == Respond(500, "Failed to index PDF")

\* const pdfDoc = await PDF.findOne({ uuid, userId });
indexPdf_findPdf(r) ==
  /\ req[r].pc = "indexPdf_findPdf"
  /\ \/ /\ req' = [req EXCEPT ![r] = Rejected(Finish(r, IndexPdfFailed))]
     \/ /\ IF \E x \in pdfs : x.uuid = req[r].pdfUuid /\ x.userId = req[r].user
           THEN req' = [req EXCEPT ![r].pc = "indexPdf_findOne"]
           ELSE req' = [req EXCEPT ![r] = Finish(r, Respond(404, "PDF not found"))]
  /\ UNCHANGED Store

\* variant: the result of the lookup is not tested
indexPdf_findOne_NoTest(r) ==
  /\ req[r].pc = "indexPdf_findOne"
  /\ \/ /\ req' = [req EXCEPT ![r] =
             Rejected([Finish(r, IndexPdfFailed) EXCEPT !.ops = @ + 1])]
     \/ /\ req' = [req EXCEPT ![r].pc = "indexPdf_insertMany", ![r].ops = @ + 1]
  /\ UNCHANGED Store

\* const existingIndex = await SearchIndex.findOne({ pdfUuid, userId,
\*   contentType: 'pdf_text' });
indexPdf_findOne(r) ==
  /\ req[r].pc = "indexPdf_findOne"
  /\ \/ /\ req' = [req EXCEPT ![r] =
             Rejected([Finish(r, IndexPdfFailed) EXCEPT !.ops = @ + 1])]
     \/ /\ IF \E x \in index : /\ x.pdfUuid = req[r].pdfUuid
                               /\ x.userId = req[r].user
                               /\ x.contentType = "pdf_text"
           THEN req' = [req EXCEPT ![r] =
                  [Finish(r, Respond(200, "PDF already indexed")) EXCEPT !.ops = @ + 1]]
           ELSE req' = [req EXCEPT ![r].pc = "indexPdf_insertMany", ![r].ops = @ + 1]
  /\ UNCHANGED Store

\* indexEntries = dummyContent.map((content, index) => ({ ..., pageNumber:
\* index + 1, contentType: 'pdf_text' })): one insertMany, one timestamp
IndexEntries(d, u, n) ==
  { [id |-> ObjectId(n, i - 1), pdfUuid |-> d, userId |-> u, pageNumber |-> i,
     content |-> dummyContent[i], contentType |-> "pdf_text",
     highlightId |-> 0, position |-> 0, createdAt |-> n] : i \in 1..Len(dummyContent) }

\* await SearchIndex.insertMany(indexEntries);
indexPdf_insertMany(r) ==
  /\ req[r].pc = "indexPdf_insertMany"
  /\ \/ /\ req' = [req EXCEPT ![r] =
             Rejected([Finish(r, IndexPdfFailed) EXCEPT !.ops = @ + 1])]
        /\ UNCHANGED index
     \/ /\ CanInsert
        /\ index' = index \cup IndexEntries(req[r].pdfUuid, req[r].user, nextId)
        /\ req' = [req EXCEPT ![r] =
             [Finish(r, [Respond(200, "PDF indexed successfully")
                           EXCEPT !.total = Len(dummyContent)])
                EXCEPT !.ops = @ + 1]]
  /\ UNCHANGED <<pdfs, highlights, nextH, removed>>

\* ------------------------------------------------------------ specification
Start(r) ==
  \/ \E i \in CreateInputs : create(r, i[1], i[2], i[3], i[4])
  \/ \E h \in highlights : indexHighlight(r, h)
  \/ \E u \in Users, hid \in 1..(nextH - 1) : delete(r, u, hid)
  \/ \E u \in Users, hid \in 1..(nextH - 1) : removeHighlightIndex(r, u, hid)
  \/ \E u \in Users, i \in SearchInputs :
       search(r, u, i[1], i[2], i[3], i[4], i[5])
  \/ \E u \in Users, i \in AdvancedInputs :
       advancedSearch(r, u, i[1], i[2], i[3], i[4], i[5], i[6], i[7], i[8], i[9], i[10])
  \/ \E u \in Users, i \in QueryInputs : getSuggestions(r, u, i[1], i[2])
  \/ \E i \in IndexPdfInputs : indexPdf(r, i[1], i[2])

\* steps of the highlight handlers and of the index maintenance they call
HighlightSteps(r) ==
  \/ create_findPdf(r)
  \/ create_save(r)
  \/ indexHighlight_findOne(r)
  \/ indexHighlight_create(r)
  \/ delete_findOneAndDelete(r)
  \/ removeHighlightIndex_deleteOne(r)

\* steps of the simple search and of the backfill it starts
SearchSteps(r) ==
  \/ search_count(r)
  \/ search_find(r)
  \/ search_pdfFind(r)
  \/ autoIndexHighlights_find(r)
  \/ autoIndexHighlights_findOne(r)
  \/ autoIndexHighlights_create(r)

\* steps of advanced search, suggestions and document indexing
OtherSteps(r) ==
  \/ advancedSearch_find(r)
  \/ advancedSearch_count(r)
  \/ advancedSearch_pdfFind(r)
  \/ getSuggestions_find(r)
  \/ indexPdf_findPdf(r)
  \/ indexPdf_findOne(r)
  \/ indexPdf_insertMany(r)

Step(r) == HighlightSteps(r) \/ SearchSteps(r) \/ OtherSteps(r)

\* Deletion of highlights in bulk and of documents.
SourceStart(r) ==
  \/ \E u \in Users, uuids \in SUBSET (1..(nextH - 1)) : bulkDelete(r, u, uuids)
  \/ \E i \in IndexPdfInputs : PDFController_delete(r, i[1], i[2])

SourceSteps(r) ==
  \/ bulkDelete_deleteMany(r)
  \/ PDFController_delete_findOne(r)
  \/ PDFController_delete_deleteMany(r)
  \/ PDFController_delete_deleteOne(r)

\* Every handler, any overlap of up to MaxSlots invocations.
Next ==
  \E r \in Slots :
    Start(r) \/ SourceStart(r) \/ Step(r) \/ SourceSteps(r) \/ settle(r)

Spec == Init /\ [][Next]_vars

\* Requests handled one after the other: a handler starts only when no other
\* is in flight.
AllFree == \A r \in Slots : Free(r)

SeqNext == \E r \in Slots : (AllFree /\ Start(r)) \/ Step(r) \/ settle(r)

SeqSpec == Init /\ [][SeqNext]_vars

\* Creation and the three ways of deleting, one request after the other.
DeletionsStart(r) ==
  \/ \E i \in CreateInputs : create(r, i[1], i[2], i[3], i[4])
  \/ \E i \in IndexPdfInputs : indexPdf(r, i[1], i[2])
  \/ \E u \in Users, hid \in 1..(nextH - 1) : delete(r, u, hid)
  \/ SourceStart(r)

DeletionsNext ==
  \E r \in Slots :
    \/ AllFree /\ DeletionsStart(r)
    \/ HighlightSteps(r)
    \/ indexPdf_findPdf(r) \/ indexPdf_findOne(r) \/ indexPdf_insertMany(r)
    \/ SourceSteps(r)
    \/ settle(r)

DeletionsSpec == Init /\ [][DeletionsNext]_vars

\* Overlapping index maintenance of one owner: highlight creation, further
\* indexing triggers, deletion, and searches that backfill.
RaceStart(r) ==
  \/ create(r, "u1", "d1", 1, TextAb)
  \/ \E h \in highlights : indexHighlight(r, h)
  \/ \E hid \in 1..(nextH - 1) : delete(r, "u1", hid)
  \/ search(r, "u1", TRUE, TRUE, TextAb, NoPdf, "all")

RaceNext ==
  \E r \in Slots : RaceStart(r) \/ HighlightSteps(r) \/ SearchSteps(r) \/ settle(r)

RaceSpec == Init /\ [][RaceNext]_vars

\* Highlights of u1 whose text is drawn from FormatContents, searched by
\* their owner with the queries of FormatQueries, one request after the
\* other.
FormatContents ==
  {<<"a", "b", " ", "c", "d">>, <<"m", "a", " ", "r", "k">>,
   <<"A", "b", " ", "a", "b">>, <<"a", " ", "c", "d">>, <<"a", "b", "c", "d">>}

FormatQueries ==
  {<<"a", "b">>, <<"c", "d">>, <<"a", "b", " ", "c", "d">>,
   <<"m", "a", " ", "r", "k">>, <<"a", " ", "c", "d">>, <<"r", "k">>}

FormatStart(r) ==
  \/ \E c \in FormatContents : create(r, "u1", "d1", 1, c)
  \/ \E q \in FormatQueries : search(r, "u1", FALSE, TRUE, q, NoPdf, "all")

FormatNext ==
  \E r \in Slots :
    \/ AllFree /\ FormatStart(r)
    \/ create_findPdf(r)
    \/ create_save(r)
    \/ indexHighlight_findOne(r)
    \/ indexHighlight_create(r)
    \/ search_count(r)
    \/ search_find(r)
    \/ search_pdfFind(r)
    \/ settle(r)

FormatSpec == Init /\ [][FormatNext]_vars

\* Backfill over several highlights: u1 has two highlights whose indexing
\* failed when they were created, and then searches, indexes and deletes,
\* one request after the other.
BackfillHighlights ==
  {[NoHighlight EXCEPT !.uuid = 1, !.pdfUuid = "d1", !.userId = "u1",
                       !.pageNumber = 1, !.highlightedText = TextAb,
                       !.position = PositionA],
   [NoHighlight EXCEPT !.uuid = 2, !.pdfUuid = "d1", !.userId = "u1",
                       !.pageNumber = 1, !.highlightedText = TextBc,
                       !.position = PositionA]}

BackfillInit ==
  /\ pdfs = {Pdf1, Pdf2}
  /\ highlights = BackfillHighlights
  /\ index = {}
  /\ req = [r \in Slots |-> Idle]
  /\ nextH = Cardinality(BackfillHighlights) + 1
  /\ removed = {}

BackfillStart(r) ==
  \/ \E bound \in BOOLEAN : search(r, "u1", bound, TRUE, TextAb, NoPdf, "all")
  \/ \E h \in highlights : indexHighlight(r, h)
  \/ \E hid \in 1..(nextH - 1) : delete(r, "u1", hid)

BackfillNext ==
  \E r \in Slots :
    \/ AllFree /\ BackfillStart(r)
    \/ indexHighlight_findOne(r)
    \/ indexHighlight_create(r)
    \/ delete_findOneAndDelete(r)
    \/ removeHighlightIndex_deleteOne(r)
    \/ SearchSteps(r)
    \/ settle(r)

BackfillSpec == BackfillInit /\ [][BackfillNext]_vars

\* Suggestions over a store with more matching units than one request
\* scans: u1 has created six highlights, each indexed at creation, and then
\* asks for suggestions and deletes highlights, one request after the other;
\* u2 asks too.
SuggestTexts ==
  << <<"a", "b", "c", " ", "a", "b", "d">>, <<"a", "b", "e">>, <<"a", "b", "f">>,
     <<"a", "b", "g">>, <<"A", "b", "h", ".">>, <<"a", "b", "i", " ", "a", "b", "c">> >>

SuggestHighlight(i) ==
  [NoHighlight EXCEPT !.uuid = i, !.pdfUuid = "d1", !.userId = "u1",
                      !.pageNumber = 1, !.highlightedText = SuggestTexts[i],
                      !.position = PositionA]

\* req.query of the suggestion requests: none, a one-character query, plain
\* prefixes, and one the server cannot compile
SuggestQueryInputs ==
  {<<FALSE, <<>> >>, <<TRUE, <<"a">> >>, <<TRUE, <<"a", "b">> >>,
   <<TRUE, <<"A", "b">> >>, <<TRUE, <<"a", "(">> >>}

SuggestInit ==
  /\ pdfs = {Pdf1, Pdf2}
  /\ highlights = {SuggestHighlight(i) : i \in 1..Len(SuggestTexts)}
  /\ index = {AnnotationUnit(SuggestHighlight(i), "u1", i) : i \in 1..Len(SuggestTexts)}
  /\ req = [r \in Slots |-> Idle]
  /\ nextH = Len(SuggestTexts) + 1
  /\ removed = {}

SuggestStart(r) ==
  \/ \E u \in Users, i \in SuggestQueryInputs : getSuggestions(r, u, i[1], i[2])
  \/ \E hid \in {1, nextH - 1} : delete(r, "u1", hid)

SuggestNext ==
  \E r \in Slots :
    \/ AllFree /\ SuggestStart(r)
    \/ getSuggestions_find(r)
    \/ delete_findOneAndDelete(r)
    \/ removeHighlightIndex_deleteOne(r)
    \/ settle(r)

SuggestSpec == SuggestInit /\ [][SuggestNext]_vars

\* Searches over units whose document may be gone: u1 creates a highlight
\* on d1 and indexes d1, deletes d1, and searches, one request after the
\* other.
DocumentStart(r) ==
  \/ create(r, "u1", "d1", 1, TextAb)
  \/ indexPdf(r, "u1", "d1")
  \/ PDFController_delete(r, "u1", "d1")
  \/ \E q \in {TextAb, <<"s", "a">>} : search(r, "u1", FALSE, TRUE, q, NoPdf, "all")
  \/ \E q \in {TextAb, <<"s", "a">>} :
       advancedSearch(r, "u1", TRUE, q, {}, {"all"}, 0, 0, 0, FALSE, 1, 20)

DocumentNext ==
  \E r \in Slots :
    \/ AllFree /\ DocumentStart(r)
    \/ create_findPdf(r) \/ create_save(r)
    \/ indexHighlight_findOne(r) \/ indexHighlight_create(r)
    \/ indexPdf_findPdf(r) \/ indexPdf_findOne(r) \/ indexPdf_insertMany(r)
    \/ PDFController_delete_findOne(r) \/ PDFController_delete_deleteMany(r)
    \/ PDFController_delete_deleteOne(r)
    \/ search_count(r) \/ search_find(r) \/ search_pdfFind(r)
    \/ advancedSearch_find(r) \/ advancedSearch_count(r) \/ advancedSearch_pdfFind(r)
    \/ settle(r)

DocumentSpec == Init /\ [][DocumentNext]_vars

\* Highlights that are created, changed, deleted and searched by u1 (u2
\* tries to change them too), one request after the other.
UpdateStart(r) ==
  \/ create(r, "u1", "d1", 1, TextAb)
  \/ \E u \in Users, hid \in 1..(nextH - 1), i \in UpdateInputs :
       update(r, u, hid, i[1], i[2])
  \/ \E hid \in 1..(nextH - 1) : delete(r, "u1", hid)
  \/ \E q \in {TextAb, TextBc} : search(r, "u1", FALSE, TRUE, q, NoPdf, "all")

UpdateNext ==
  \E r \in Slots :
    \/ AllFree /\ UpdateStart(r)
    \/ HighlightSteps(r)
    \/ update_findOneAndUpdate(r)
    \/ search_count(r) \/ search_find(r) \/ search_pdfFind(r)
    \/ settle(r)

UpdateSpec == Init /\ [][UpdateNext]_vars

\* Advanced searches of u1 that overlap with u1's own highlight creations
\* and deletions.
PaginationStart(r) ==
  \/ create(r, "u1", "d1", 1, TextAb)
  \/ \E hid \in 1..(nextH - 1) : delete(r, "u1", hid)
  \/ \E lim \in {1, PageSize} :
       advancedSearch(r, "u1", TRUE, TextAb, {}, {"all"}, 0, 0, 0, FALSE, 1, lim)

PaginationNext ==
  \E r \in Slots :
    \/ PaginationStart(r)
    \/ HighlightSteps(r)
    \/ advancedSearch_find(r) \/ advancedSearch_count(r) \/ advancedSearch_pdfFind(r)
    \/ settle(r)

PaginationSpec == Init /\ [][PaginationNext]_vars

\* Overlapping indexPdf requests.
IndexRaceNext ==
  \E r \in Slots :
    \/ \E i \in IndexPdfInputs : indexPdf(r, i[1], i[2])
    \/ indexPdf_findPdf(r)
    \/ indexPdf_findOne(r)
    \/ indexPdf_insertMany(r)
    \/ settle(r)

IndexRaceSpec == Init /\ [][IndexRaceNext]_vars

\* ------------------------------------------------------------- properties
\* What the properties observe of the store and of the invocations.
AnnotationUnits(u, hid) ==
  {x \in index : x.contentType = "annotation" /\ x.userId = u /\ x.highlightId = hid}

OwnedBy(u) == {x \in index : x.userId = u}

HighlightUuids == 1..(nextH - 1)

\* the invocation went through indexHighlight and that call has returned
IndexedBy(r) ==
  /\ req[r].pc = "done"
  /\ \/ req[r].kind = "indexHighlight"
     \/ req[r].kind = "create" /\ req[r].hl.uuid # 0

\* C1: under any interleaving of indexing triggers (indexHighlight calls,
\* backfill runs) the store never holds two annotation units for the same
\* (owner, highlight uuid) pair.
C1_SingleUnitPerAnnotation ==
  \A u \in Users, hid \in HighlightUuids : Cardinality(AnnotationUnits(u, hid)) <= 1

\* C2: with requests handled one after the other, indexHighlight never leaves
\* more than one unit for an annotation and never raises; when a call has
\* returned and none of its collection operations was rejected, exactly one unit for
\* its annotation is stored - also when the call found the unit of an
\* earlier call and inserted nothing.
C2_IdempotentIndexing ==
  /\ \A u \in Users, hid \in HighlightUuids : Cardinality(AnnotationUnits(u, hid)) <= 1
  /\ \A r \in Slots :
       IndexedBy(r) =>
         /\ ~req[r].resp.raised
         /\ ~req[r].rejected =>
              Cardinality(AnnotationUnits(req[r].user, req[r].hl.uuid)) = 1

\* a direct indexHighlight call has returned after its lookup found the unit
\* an earlier call stored
C2_Witness ==
  \E r \in Slots :
    /\ req[r].kind = "indexHighlight" /\ req[r].pc = "done"
    /\ req[r].ops = 1 /\ ~req[r].rejected
    /\ Cardinality(AnnotationUnits(req[r].user, req[r].hl.uuid)) = 1

\* C3: what a simple search, an advanced search or a suggestions request read
\* from the store and what it answers comes from units of the caller only.
C3_ReadIsolation ==
  \A r \in Slots :
    req[r].kind \in {"search", "advancedSearch", "getSuggestions"} =>
      /\ \A i \in 1..Len(req[r].results) : req[r].results[i].userId = req[r].user
      /\ \A i \in 1..Len(req[r].resp.results) :
           \E j \in 1..Len(req[r].results) :
             /\ req[r].resp.results[i].id = req[r].results[j].id
             /\ req[r].resp.results[i].content = req[r].results[j].content
      /\ \A i \in 1..Len(req[r].resp.suggestions) :
           \E j \in 1..Len(req[r].results) :
             LET words == SplitWs(req[r].results[j].content, <<>>, <<>>)
             IN \E k \in 1..Len(words) :
                  CleanWord(words[k]) = req[r].resp.suggestions[i].text

\* a search answered with results while a unit of another owner matching the
\* same query was in the store
C3_Witness ==
  \E r \in Slots :
    /\ req[r].kind = "search" /\ req[r].pc = "done"
    /\ Len(req[r].resp.results) > 0
    /\ \E x \in index : x.userId # req[r].user /\ RegexMatch(x.content, req[r].query)

\* C4: a step of an invocation made for one owner leaves the units of every
\* other owner as they were.
C4_WriteIsolation ==
  [][\A r \in Slots :
       req'[r] # req[r] =>
         \A u \in Users :
           u \notin {req[r].user, req'[r].user} =>
             {x \in index' : x.userId = u} = OwnedBy(u)]_vars

\* removeHighlightIndex was called for one owner with the uuid of a highlight
\* whose unit belongs to another owner, and that unit is still stored
C4_Witness ==
  \E r \in Slots, x \in index :
    /\ req[r].kind = "removeHighlightIndex" /\ req[r].pc = "done"
    /\ req[r].ops = 1 /\ ~req[r].rejected
    /\ x.highlightId = req[r].hl.uuid /\ x.userId # req[r].user

\* C5: when the deletion of a highlight and an indexing trigger for the same
\* highlight (its creation or a further indexHighlight call) have both
\* completed, none of their collection operations rejected, no annotation
\* unit is left for that highlight.
C5_NoUnitOfDeletedHighlight ==
  \A r1, r2 \in Slots :
    ( /\ req[r1].kind = "delete" /\ req[r1].pc = "done"
      /\ req[r1].resp.status = 200 /\ ~req[r1].rejected
      /\ IndexedBy(r2) /\ ~req[r2].rejected
      /\ req[r2].user = req[r1].user /\ req[r2].hl.uuid = req[r1].hl.uuid ) =>
      AnnotationUnits(req[r1].user, req[r1].hl.uuid) = {}

\* C6: with requests handled one after the other, a search of an owner never
\* returns an annotation unit of a highlight whose unit removeHighlightIndex
\* deleted for that owner and that has not been indexed again.
C6_RoundTripDelete ==
  \A r \in Slots :
    req[r].kind = "search" =>
      \A i \in 1..Len(req[r].resp.results) :
        req[r].resp.results[i].contentType = "annotation" =>
          <<req[r].user, req[r].resp.results[i].highlightId>> \notin removed

\* the query ran against a non-empty index with the exact text of a highlight
\* whose unit had been indexed and then removed
C6_Witness ==
  \E r \in Slots, h \in highlights :
    /\ req[r].kind = "search" /\ req[r].pc = "done"
    /\ req[r].resp.status = 200 /\ ~req[r].resp.needsIndexing
    /\ req[r].user = h.userId /\ req[r].query = h.highlightedText
    /\ <<h.userId, h.uuid>> \in removed

\* C7: after a search dispatched through the route counted zero units for
\* its owner and has responded, every highlight of the owner has exactly
\* one annotation unit.
C7_BackfillConvergence ==
  \A r \in Slots :
    ( /\ req[r].kind = "search" /\ ~req[r].thisBound /\ req[r].pc = "done"
      /\ req[r].totalIndexCount = 0 ) =>
      \A h \in highlights :
        h.userId = req[r].user =>
          Cardinality(AnnotationUnits(h.userId, h.uuid)) = 1

\* C8: a simple search with a valid query that counted zero units for its
\* owner responds successfully with no results and needsIndexing = true.
C8_ZeroIndexFallback ==
  \A r \in Slots :
    (req[r].kind = "search" /\ req[r].pc = "done" /\ req[r].totalIndexCount = 0) =>
      /\ req[r].resp.status = 200
      /\ req[r].resp.results = <<>>
      /\ req[r].resp.needsIndexing

\* the query of the invocation is missing or has fewer than 2 characters
\* once trimmed
ShortQuery(r) == ~req[r].hasQuery \/ Len(Trim(req[r].query)) <= 1

\* C9: a simple or advanced search whose query is missing or shorter than 2
\* characters after trimming is answered 400 with no results and zero
\* pagination, without a single SearchIndex operation.
C9_ShortQueryRejection ==
  \A r \in Slots :
    (req[r].kind \in {"search", "advancedSearch"} /\ ShortQuery(r)) =>
      /\ req[r].pc = "done"
      /\ req[r].resp.status = 400
      /\ req[r].resp.results = <<>>
      /\ req[r].resp.total = 0 /\ req[r].resp.pages = 0 /\ req[r].resp.current = 1
      /\ req[r].ops = 0

\* a search whose query has two characters but only one once trimmed
C9_Witness ==
  \E r \in Slots :
    /\ req[r].kind = "search" /\ req[r].pc = "done"
    /\ req[r].hasQuery /\ Len(req[r].query) >= 2 /\ Len(Trim(req[r].query)) = 1
    /\ req[r].resp.status = 400

\* C11: when a highlight delete, a bulk highlight delete or a document delete
\* has completed successfully (requests one after the other, none of its
\* operations rejected), no annotation unit refers to a highlight it deleted
\* and no unit refers to the document it deleted.
C11_UnitsFollowSourceDeletion ==
  \A r \in Slots :
    (req[r].pc = "done" /\ req[r].resp.status = 200 /\ ~req[r].rejected) =>
      /\ req[r].kind = "delete" =>
           AnnotationUnits(req[r].user, req[r].hl.uuid) = {}
      /\ req[r].kind = "bulkDelete" =>
           \A hid \in req[r].highlightUuids :
             (\A h \in highlights : h.uuid # hid) =>
               AnnotationUnits(req[r].user, hid) = {}
      /\ req[r].kind = "PDFController_delete" =>
           \A x \in index : ~(x.pdfUuid = req[r].pdfUuid /\ x.userId = req[r].user)

\* C12: the deleteOne of removeHighlightIndex(h, owner) takes at most one
\* unit out of the store, one with highlightId = h of that owner, adds
\* nothing and changes no other unit (pdf_text units included); when no
\* unit matches the store stays as it is; the call never raises.
C12_RemovalFrame ==
  [][\A r \in Slots :
       (req[r].pc = "removeHighlightIndex_deleteOne" /\ req'[r].pc = "done") =>
         /\ index' \subseteq index
         /\ Cardinality(index \ index') <= 1
         /\ \A x \in index \ index' :
              /\ x.contentType = "annotation"
              /\ x.highlightId = req[r].hl.uuid
              /\ x.userId = req[r].user
         /\ AnnotationUnits(req[r].user, req[r].hl.uuid) = {} => index' = index
         /\ ~req'[r].resp.raised]_vars

\* removeHighlightIndex has deleted the unit of its highlight while a
\* pdf_text unit of the same owner was stored, and that unit is still there
C12_Witness ==
  \E r \in Slots, x \in index :
    /\ req[r].kind \in {"removeHighlightIndex", "delete"} /\ req[r].pc = "done"
    /\ ~req[r].rejected
    /\ <<req[r].user, req[r].hl.uuid>> \in removed
    /\ x.userId = req[r].user /\ x.contentType = "pdf_text"

\* q occurs in t as it is written
ContainedIn(q, t) ==
  \E k \in 1..(Len(t) - Len(q) + 1) : SubSeq(t, k, k + Len(q) - 1) = q

\* the results of invocation r that show highlight h as claim C13 describes
ResultsFor(r, h) ==
  {i \in 1..Len(req[r].resp.results) :
     /\ req[r].resp.results[i].highlightId = h.uuid
     /\ req[r].resp.results[i].contentType = "annotation"
     /\ req[r].resp.results[i].pageNumber = h.pageNumber}

\* search r comes after the successful creation of h (requests one after the
\* other, the unit of h not removed since), by the owner of h, with a query
\* contained in its text and no filter that excludes it
SearchAfterCreate(r, h) ==
  /\ req[r].kind = "search" /\ req[r].pc = "done" /\ req[r].hasQuery
  /\ req[r].user = h.userId
  /\ Len(Trim(req[r].query)) >= MinQueryLen
  /\ ContainedIn(req[r].query, h.highlightedText)
  /\ req[r].pdfUuid \in {NoPdf, h.pdfUuid}
  /\ <<h.userId, h.uuid>> \notin removed

StoredBefore(r, h) ==
  AnnotationUnits(h.userId, h.uuid) # {} /\ req[r].totalIndexCount # 0

SatisfiesAll(x, r) ==
  /\ x.userId = req[r].user
  /\ ContainedIn(ToLower(req[r].query), ToLower(x.content))
  /\ (req[r].pdfUuids # {} => x.pdfUuid \in req[r].pdfUuids)
  /\ ("all" \notin req[r].contentTypes => x.contentType \in req[r].contentTypes)
  /\ (req[r].dateFrom # 0 => x.createdAt >= req[r].dateFrom)
  /\ (req[r].dateTo # 0 => x.createdAt <= req[r].dateTo)
  /\ (req[r].pageNumber # 0 => x.pageNumber = req[r].pageNumber)

\* C14: the results of a successful advanced search (first page, requests one
\* after the other) are exactly the owner's units that satisfy every
\* supplied dimension at once.
C14_AdvancedFilterConjunction ==
  \A r \in Slots :
    ( /\ req[r].kind = "advancedSearch" /\ req[r].pc = "done"
      /\ req[r].resp.status = 200 /\ req[r].page = 1 ) =>
      {req[r].resp.results[i].id : i \in 1..Len(req[r].resp.results)}
        = {x.id : x \in {y \in index : SatisfiesAll(y, r)}}

\* C15: a successful advanced search reports fuzzy = false whatever flag it
\* was given, and its results (first page, requests one after the other)
\* are those the same request gets with the flag off.
C15_FuzzyFlagHonesty ==
  \A r \in Slots :
    ( /\ req[r].kind = "advancedSearch" /\ req[r].pc = "done"
      /\ req[r].resp.status = 200 ) =>
      /\ req[r].resp.hasFuzzy /\ ~req[r].resp.fuzzy
      /\ req[r].page = 1 =>
           {req[r].resp.results[i].id : i \in 1..Len(req[r].resp.results)}
             = {x.id : x \in {y \in index :
                                AdvancedFilter(y, [req[r] EXCEPT !.fuzzy = FALSE])}}

\* an advanced search asked for fuzzy matching and answered with results
C15_Witness ==
  \E r \in Slots :
    /\ req[r].kind = "advancedSearch" /\ req[r].pc = "done"
    /\ req[r].fuzzy /\ req[r].resp.status = 200
    /\ Len(req[r].resp.results) > 0 /\ ~req[r].resp.fuzzy

\* C16: in every state the owner of a unit is the owner of the highlight its
\* highlightId names (annotation units) and of the document its pdfUuid
\* names.
C16_OwnershipInvariant ==
  \A x \in index :
    /\ x.contentType = "annotation" =>
         \A h \in highlights : h.uuid = x.highlightId => h.userId = x.userId
    /\ \A d \in pdfs : d.uuid = x.pdfUuid => d.userId = x.userId

\* an annotation unit of one owner, its highlight and its document present,
\* is stored next to a pdf_text unit of another owner
C16_Witness ==
  \E x, y \in index :
    /\ x.contentType = "annotation" /\ y.contentType = "pdf_text"
    /\ x.userId # y.userId
    /\ \E h \in highlights : h.uuid = x.highlightId /\ h.userId = x.userId
    /\ \E d \in pdfs : d.uuid = x.pdfUuid /\ d.userId = x.userId
    /\ \E d \in pdfs : d.uuid = y.pdfUuid /\ d.userId = y.userId

\* What a reader of the highlighted output sees: its characters outside the
\* emphasis markers, each with whether it stands inside a marker.
RECURSIVE Emphasis(_, _)
Emphasis(out, depth) ==
  IF out = <<>> THEN <<>>
  ELSE IF StartsWith(out, MarkOpen)
       THEN Emphasis(SubSeq(out, Len(MarkOpen) + 1, Len(out)), depth + 1)
  ELSE IF StartsWith(out, MarkClose)
       THEN Emphasis(SubSeq(out, Len(MarkClose) + 1, Len(out)), depth - 1)
  ELSE <<[c |-> Head(out), marked |-> depth > 0]>> \o Emphasis(Tail(out), depth)

\* the query terms of length greater than 1
QueryTerms(query) ==
  LET ts == SplitWs(query, <<>>, <<>>)
  IN {ts[i] : i \in {j \in 1..Len(ts) : Len(ts[j]) > 1}}

\* position k of content lies in a case-insensitive occurrence of a term
Covered(content, terms, k) ==
  \E t \in terms, j \in 1..Len(content) :
    /\ j <= k /\ k < j + Len(t) /\ j + Len(t) - 1 <= Len(content)
    /\ ToLower(SubSeq(content, j, j + Len(t) - 1)) = ToLower(t)

\* C17: Highlighting correctness: in every result of an answered search the
\* highlighted output is the content with emphasis markers added, a
\* character of the content stands inside a marker exactly when it lies in
\* a case-insensitive occurrence of a query term of length greater than 1.
C17_HighlightingCorrectness ==
  \A r \in Slots :
    (req[r].kind = "search" /\ req[r].pc = "done" /\ req[r].resp.status = 200) =>
      \A i \in 1..Len(req[r].resp.results) :
        LET res == req[r].resp.results[i]
            e == Emphasis(res.highlightedContent, 0)
        IN /\ [k \in 1..Len(e) |-> e[k].c] = res.content
           /\ \A k \in 1..Len(res.content) :
                e[k].marked <=> Covered(res.content, QueryTerms(req[r].query), k)

\* C17 holds on the example of the specification's kind: two terms that
\* each occur once, and a word that is no term.
C17_Example ==
  \A r \in Slots :
    (req[r].kind = "search" /\ req[r].pc = "done" /\ req[r].resp.status = 200
       /\ req[r].query = <<"a", "b", " ", "c", "d">>) =>
      \A i \in 1..Len(req[r].resp.results) :
        req[r].resp.results[i].content = <<"a", "b", " ", "c", "d">> =>
          req[r].resp.results[i].highlightedContent =
            MarkOpen \o <<"a", "b">> \o MarkClose \o <<" ">>
              \o MarkOpen \o <<"c", "d">> \o MarkClose

\* C18: Backfill continues past a failure: when the lookup or the insert for
\* one highlight fails during a backfill, every other highlight of the owner
\* that the run had still to visit has a unit when the run ends, and no error
\* is raised to the caller.  (A run that stopped on a failure keeps the
\* failed highlight at the head of todo.)
C18_BackfillContinuesPastFailure ==
  \A r \in Slots :
    (req[r].kind = "search" /\ req[r].pc = "done" /\ req[r].rejected
       /\ req[r].todo # <<>>) =>
      /\ ~req[r].resp.raised
      /\ \A i \in 2..Len(req[r].todo) :
           UnitsOfHighlight(req[r].todo[i].uuid, req[r].user) # {}

\* the part of C18 the code keeps: a failure inside the backfill is not
\* raised to the caller of the search, which is answered needsIndexing
C18_FailureNotRaised ==
  \A r \in Slots :
    (req[r].kind = "search" /\ req[r].pc = "done" /\ req[r].rejected
       /\ req[r].todo # <<>>) =>
      ~req[r].resp.raised /\ req[r].resp.needsIndexing

\* C19: Advanced search applies the zero-index fallback: an advanced search
\* with a valid query whose reads succeeded, issued by an owner who has no
\* unit, signals needsIndexing = true and has issued the backfill reads
\* (more operations than its own two reads), rather than returning a plain
\* empty result set.
C19_AdvancedZeroIndexFallback ==
  \A r \in Slots :
    (req[r].kind = "advancedSearch" /\ req[r].pc = "done" /\ ~ShortQuery(r)
       /\ RegexValid(req[r].query) /\ ~req[r].rejected
       /\ OwnedBy(req[r].user) = {}) =>
      /\ req[r].resp.needsIndexing
      /\ req[r].ops > 2

\* what the code does instead in the case of C19: a plain empty page
C19_PlainEmptyResult ==
  \A r \in Slots :
    (req[r].kind = "advancedSearch" /\ req[r].pc = "done" /\ ~ShortQuery(r)
       /\ RegexValid(req[r].query) /\ ~req[r].rejected
       /\ OwnedBy(req[r].user) = {}) =>
      /\ req[r].resp.status = 200
      /\ req[r].resp.results = <<>>
      /\ req[r].resp.total = 0
      /\ ~req[r].resp.needsIndexing

\* the step of invocation r in which findOneAndDelete resolves without a
\* match: the uuid names no highlight of the calling owner
DeleteFindsNothing(r) ==
  /\ req[r].kind = "delete" /\ req[r].pc = "delete_findOneAndDelete"
  /\ req'[r] # req[r] /\ ~req'[r].rejected
  /\ ~\E h \in highlights : h.uuid = req[r].hl.uuid /\ h.userId = req[r].user

\* C20: Null-safe highlight deletion: a delete request for a highlight uuid
\* that does not exist for the calling owner is answered 404 "Highlight not
\* found", raises no exception, does not call removeHighlightIndex and
\* leaves the highlight collection and the Content Store unchanged.
C20_NullSafeDelete ==
  [][\A r \in Slots :
       DeleteFindsNothing(r) =>
         /\ req'[r].pc = "done"
         /\ req'[r].resp.status = 404
         /\ req'[r].resp.error = "Highlight not found"
         /\ ~req'[r].resp.raised
         /\ highlights' = highlights /\ index' = index]_vars

\* the part of C20 the code keeps: such a request ends without calling
\* removeHighlightIndex and leaves both collections as they were; but it
\* ends by raising
C20_NothingRemoved ==
  [][\A r \in Slots :
       DeleteFindsNothing(r) =>
         /\ req'[r].pc = "done"
         /\ req'[r].ops = 0
         /\ req'[r].resp.raised
         /\ highlights' = highlights /\ index' = index]_vars

\* the body-text units of document d stored for owner u
PdfTextUnits(u, d) ==
  {x \in index : x.contentType = "pdf_text" /\ x.userId = u /\ x.pdfUuid = d}

\* document d is not indexed for u, or has exactly one body-text unit per
\* page, the pages being 1..k
OneUnitPerPage(u, d) ==
  PdfTextUnits(u, d) # {} =>
    /\ {x.pageNumber : x \in PdfTextUnits(u, d)} = 1..Len(dummyContent)
    /\ \A p \in 1..Len(dummyContent) :
         Cardinality({x \in PdfTextUnits(u, d) : x.pageNumber = p}) = 1

\* C21: Document indexing is idempotent: an indexPdf request whose lookup
\* resolves when the document already has body-text units for the owner
\* (an earlier request has indexed it) answers "PDF already indexed" and
\* inserts nothing; after every step of requests made one after the other
\* an indexed document has exactly one pdf_text unit per page, pages 1..k.
C21_IdempotentDocumentIndexing ==
  [][/\ \A r \in Slots :
          (req[r].kind = "indexPdf" /\ req[r].pc = "indexPdf_findOne"
             /\ req'[r] # req[r] /\ ~req'[r].rejected
             /\ PdfTextUnits(req[r].user, req[r].pdfUuid) # {}) =>
            /\ req'[r].pc = "done"
            /\ req'[r].resp.status = 200
            /\ req'[r].resp.error = "PDF already indexed"
            /\ index' = index
     /\ \A u \in Users, x \in pdfs : OneUnitPerPage(u, x.uuid)']_vars

\* C21 witness: a request found the document indexed and said so.
C21_Witness ==
  \E r \in Slots :
    /\ req[r].kind = "indexPdf" /\ req[r].pc = "done"
    /\ req[r].resp.error = "PDF already indexed"
    /\ Cardinality(PdfTextUnits(req[r].user, req[r].pdfUuid)) = Len(dummyContent)

\* unit x matches the simple search r as the specification describes it:
\* owner, content containing the query letter case aside, pdfUuid when
\* given, contentType when not "all"
MatchesSimple(x, r) ==
  /\ x.userId = req[r].user
  /\ ContainedIn(ToLower(req[r].query), ToLower(x.content))
  /\ (req[r].pdfUuid # NoPdf => x.pdfUuid = req[r].pdfUuid)
  /\ (req[r].contentType # "all" => x.contentType = req[r].contentType)

\* a simple search that read a non-empty index and answered with results
AnsweredSimple(r) ==
  /\ req[r].kind = "search" /\ req[r].pc = "done"
  /\ req[r].totalIndexCount > 0 /\ req[r].resp.status = 200

\* the results of r are the PageSize most recent units of M, most recent
\* first
MostRecentOf(r, M) ==
  LET res == req[r].resp.results
      ids == {res[i].id : i \in 1..Len(res)}
  IN /\ Len(res) <= PageSize
     /\ Len(res) = Min(PageSize, Cardinality(M))
     /\ Cardinality(ids) = Len(res)
     /\ ids \subseteq {x.id : x \in M}
     /\ \A i, j \in 1..Len(res) : i < j => res[i].createdAt >= res[j].createdAt
     /\ \A x \in M : x.id \notin ids =>
          \A i \in 1..Len(res) : res[i].createdAt >= x.createdAt

\* C22: Simple search ordering and page size: with a non-empty index, a
\* simple search returns at most 20 results, which are the most recently
\* created of the units matching owner, case-insensitive substring, pdfUuid
\* (when given) and contentType (when not "all"), in descending createdAt
\* order.
C22_SimpleSearchOrdering ==
  \A r \in Slots :
    AnsweredSimple(r) => MostRecentOf(r, {x \in index : MatchesSimple(x, r)})

\* the part of C22 the code keeps: page size and order, over the units the
\* code's own filter selects
C22_OrderAndPageSize ==
  \A r \in Slots :
    AnsweredSimple(r) => MostRecentOf(r, {x \in index : SimpleFilter(x, req[r])})

\* a search handler (simple or advanced)
IsSearch(q) == q.kind \in {"search", "advancedSearch"}

\* invocation r takes a step in which a Content Store operation issued at one
\* of the positions pcs rejects
StoreOpFails(r, pcs) ==
  /\ IsSearch(req[r]) /\ req[r].pc \in pcs
  /\ ~req[r].rejected /\ req'[r].rejected

\* the Content Store reads of the two search handlers themselves
SearchReads == {"search_count", "search_find", "advancedSearch_query"}

\* the Content Store operations of the backfill a search runs
BackfillOps == {"autoIndexHighlights_findOne", "autoIndexHighlights_create"}

\* the response of q is a server error with the empty-results shape
EmptyServerError(q) ==
  /\ q.pc = "done" /\ q.resp.status = 500 /\ ~q.resp.raised
  /\ q.resp.results = <<>>
  /\ q.resp.total = 0 /\ q.resp.pages = 0 /\ q.resp.current = 1

\* every finished search has been answered, and no exception left it
AnsweredOnce(q) ==
  (IsSearch(q) /\ q.pc = "done") =>
    q.resp.status \in {200, 400, 500} /\ ~q.resp.raised

\* C23, as stated: every search request ends with one response, and when
\* any Content Store operation of the request fails that response is a
\* server error (500) with results = [] and pagination total 0, pages 0,
\* current 1; no exception escapes the handler.
C23_OneWellTypedResponse_AsStated ==
  [][\A r \in Slots :
       /\ AnsweredOnce(req'[r])
       /\ StoreOpFails(r, SearchReads \cup BackfillOps) => EmptyServerError(req'[r])]_vars

\* C23, amended: every search request ends with one response and no
\* exception escapes; when a Content Store read of the search itself (its
\* count or find) fails the response is the 500 error with the empty-results
\* shape; when an operation inside the backfill fails the failure is
\* swallowed and the response is the success with needsIndexing = true and
\* the same empty-results shape.
C23_OneWellTypedResponse ==
  [][\A r \in Slots :
       /\ AnsweredOnce(req'[r])
       /\ StoreOpFails(r, SearchReads) => EmptyServerError(req'[r])
       /\ StoreOpFails(r, BackfillOps) =>
            /\ req'[r].pc = "done" /\ req'[r].resp.status = 200
            /\ req'[r].resp.needsIndexing /\ req'[r].resp.results = <<>>
            /\ req'[r].resp.total = 0 /\ req'[r].resp.pages = 0
            /\ req'[r].resp.current = 1]_vars

\* C23 witness: a read of a simple search failed and the request was
\* answered 500.
C23_Witness ==
  \E r \in Slots :
    /\ req[r].kind = "search" /\ req[r].pc = "done" /\ req[r].rejected
    /\ req[r].ops > 0 /\ req[r].resp.status = 500

\* a finished suggestions request
SuggestDone(r) == req[r].kind = "getSuggestions" /\ req[r].pc = "done"

\* C24: Suggestions degrade to empty: a suggestions request is always
\* answered with a success and never raises; when its Content Store read
\* failed, and when the query is missing or shorter than 2 characters, the
\* suggestions list is empty.
C24_SuggestionsDegradeToEmpty ==
  \A r \in Slots :
    SuggestDone(r) =>
      /\ req[r].resp.status = 200 /\ ~req[r].resp.raised
      /\ (req[r].rejected \/ ~req[r].hasQuery \/ Len(req[r].query) < MinQueryLen
            \/ ~RegexValid(req[r].query)) =>
           req[r].resp.suggestions = <<>>

\* C24 witness: the read of a suggestions request was rejected while units
\* matching its query were stored.
C24_Witness ==
  \E r \in Slots :
    /\ SuggestDone(r) /\ req[r].rejected /\ req[r].ops = 1
    /\ \E x \in index : SuggestFilter(x, req[r])

\* C25: Suggestion extraction output: for a query of at least 2 characters
\* the suggestions list has at most 5 entries with pairwise distinct texts
\* and count 1; each text is the lower-cased, non-word-character-stripped
\* form of a whitespace-separated token of a scanned unit's content, starts
\* with the lower-cased query and is strictly longer than it.
C25_SuggestionExtraction ==
  \A r \in Slots :
    (SuggestDone(r) /\ req[r].hasQuery /\ Len(req[r].query) >= MinQueryLen) =>
      LET sg == req[r].resp.suggestions
      IN /\ Len(sg) <= SuggestLimit
         /\ \A i, j \in 1..Len(sg) : i # j => sg[i].text # sg[j].text
         /\ \A i \in 1..Len(sg) :
              /\ sg[i].count = 1
              /\ StartsWith(sg[i].text, ToLower(req[r].query))
              /\ Len(sg[i].text) > Len(req[r].query)
              /\ \E k \in 1..Len(req[r].results) :
                   LET ws == SplitWs(req[r].results[k].content, <<>>, <<>>)
                   IN \E n \in 1..Len(ws) : sg[i].text = CleanWord(ws[n])

\* C25 witness: five suggestions were returned although the scanned units
\* hold more than five tokens that qualify, one of them twice.
C25_Witness ==
  \E r \in Slots :
    /\ SuggestDone(r) /\ Len(req[r].resp.suggestions) = SuggestLimit
    /\ \E k \in 1..Len(req[r].results) : req[r].results[k].highlightId = 1
    /\ \E k \in 1..Len(req[r].results) : req[r].results[k].highlightId = 6

\* C26: Suggestions scan recent content: the units a suggestions request
\* scans are the (up to) 5 most recently created units of the owner that
\* match the query: no matching unit left out is newer than a scanned one.
C26_SuggestionsScanRecent ==
  \A r \in Slots :
    (SuggestDone(r) /\ req[r].ops = 1 /\ ~req[r].rejected
       /\ RegexValid(req[r].query)) =>
      LET M == {x \in index : SuggestFilter(x, req[r])}
          scanned == {req[r].results[k].id : k \in 1..Len(req[r].results)}
      IN /\ scanned \subseteq {x.id : x \in M}
         /\ Cardinality(scanned) = Min(SuggestLimit, Cardinality(M))
         /\ \A x \in M : x.id \notin scanned =>
              \A k \in 1..Len(req[r].results) :
                req[r].results[k].createdAt >= x.createdAt

\* the part of C26 the code keeps: at most 5 units are scanned, all of them
\* units of the owner that match the query
C26_ScansFiveMatching ==
  \A r \in Slots :
    (SuggestDone(r) /\ req[r].ops = 1 /\ ~req[r].rejected
       /\ RegexValid(req[r].query)) =>
      LET M == {x \in index : SuggestFilter(x, req[r])}
          scanned == {req[r].results[k].id : k \in 1..Len(req[r].results)}
      IN /\ scanned \subseteq {x.id : x \in M}
         /\ Cardinality(scanned) = Min(SuggestLimit, Cardinality(M))

\* the documents with uuid d that u owns
OwnedPdfs(u, d) == {x \in pdfs : x.uuid = d /\ x.userId = u}

\* C27: Unknown-document degradation: when the document-name lookup of a
\* simple or advanced search resolves or rejects, the request is answered
\* with a success that lists every match found; a result whose pdfUuid has
\* no document owned by the caller, or whose lookup failed, carries the
\* sentinel name, and any other name is the name of a document the caller
\* owns.
C27_UnknownDocumentDegradation ==
  [][\A r \in Slots :
       (req[r].pc \in {"search_pdfFind", "advancedSearch_pdfFind"}
          /\ req'[r] # req[r]) =>
         /\ req'[r].pc = "done"
         /\ req'[r].resp.status = 200 /\ ~req'[r].resp.raised
         /\ Len(req'[r].resp.results) = Len(req[r].results)
         /\ \A i \in 1..Len(req[r].results) :
              LET res == req'[r].resp.results[i]
                  owned == OwnedPdfs(req[r].user, res.pdfUuid)
              IN /\ res.id = req[r].results[i].id
                 /\ (owned = {} \/ req'[r].rejected) => res.pdfName = UnknownPdf
                 /\ res.pdfName # UnknownPdf =>
                      \E x \in owned : x.originalName = res.pdfName]_vars

\* C27 witness: a search whose lookup succeeded returned a unit of a
\* document that was deleted after indexing, under the sentinel name.
C27_Witness ==
  \E r \in Slots :
    /\ IsSearch(req[r]) /\ req[r].pc = "done" /\ ~req[r].rejected
    /\ req[r].resp.status = 200
    /\ \E i \in 1..Len(req[r].resp.results) :
         /\ req[r].resp.results[i].pdfName = UnknownPdf
         /\ OwnedPdfs(req[r].user, req[r].resp.results[i].pdfUuid) = {}

\* C28: Indexed content tracks the highlight: whenever no request is in
\* flight, each annotation unit's content, pageNumber and position equal the
\* highlightedText, pageNumber and position of the highlight of its owner
\* that its highlightId names.
C28_IndexTracksHighlight ==
  AllFree =>
    \A x \in index, h \in highlights :
      (x.contentType = "annotation" /\ h.uuid = x.highlightId
         /\ h.userId = x.userId) =>
        /\ x.content = h.highlightedText
        /\ x.pageNumber = h.pageNumber
        /\ x.position = h.position

\* the second half of C28: after an update that changed highlightedText, a
\* search for the new text returns the highlight
C28_SearchFindsNewText ==
  \A r \in Slots, h \in highlights :
    (AnsweredSimple(r) /\ ~req[r].rejected /\ h.userId = req[r].user
       /\ AnnotationUnits(h.userId, h.uuid) # {}
       /\ ContainedIn(ToLower(req[r].query), ToLower(h.highlightedText))) =>
      \E i \in 1..Len(req[r].resp.results) :
        req[r].resp.results[i].highlightId = h.uuid

\* C29: Advanced-search pagination is self-consistent under concurrent
\* writes: in every advanced search response the number of returned results
\* never exceeds pagination.total, and pagination.pages = ceil(total /
\* limit), even when index inserts or removals of the same owner interleave
\* with the find and the count of the request.
C29_PaginationSelfConsistent ==
  \A r \in Slots :
    (req[r].kind = "advancedSearch" /\ req[r].pc = "done"
       /\ req[r].resp.status = 200) =>
      /\ Len(req[r].resp.results) <= req[r].resp.total
      /\ req[r].resp.pages = Ceil(req[r].resp.total, req[r].limit)

\* the part of C29 the code keeps: total is what the count read saw in one
\* store state, and pages is derived from that total
C29_PagesFromTotal ==
  \A r \in Slots :
    (req[r].kind = "advancedSearch" /\ req[r].pc = "done"
       /\ req[r].resp.status = 200) =>
      /\ req[r].resp.total = req[r].total
      /\ req[r].resp.pages = Ceil(req[r].resp.total, req[r].limit)

\* request r has answered that it inserted the pages of its document
ReportsInserted(r) ==
  /\ req[r].kind = "indexPdf" /\ req[r].pc = "done"
  /\ req[r].resp.error = "PDF indexed successfully"

\* C30: Concurrent document indexing does not duplicate pages: whatever the
\* overlap of indexPdf requests, the store holds at most one pdf_text unit
\* per (owner, pdfUuid, pageNumber), and of two requests for the same
\* document and owner at most one reports having inserted pages.
C30_NoDuplicatePages ==
  /\ \A x, y \in index :
       (x.contentType = "pdf_text" /\ y.contentType = "pdf_text"
          /\ x.userId = y.userId /\ x.pdfUuid = y.pdfUuid
          /\ x.pageNumber = y.pageNumber) => x = y
  /\ \A r, t \in Slots :
       (r # t /\ ReportsInserted(r) /\ ReportsInserted(t)) =>
         ~(req[r].user = req[t].user /\ req[r].pdfUuid = req[t].pdfUuid)

\* C10: with requests handled one after the other, a create whose highlight
\* was saved answers 201, raises nothing and leaves the highlight stored,
\* whatever happened to the lookup and the insert of indexHighlight.
C10_CreateSurvivesIndexingFailure ==
  \A r \in Slots :
    (req[r].kind = "create" /\ req[r].pc = "done" /\ req[r].hl.uuid # 0) =>
      /\ req[r].resp.status = 201
      /\ ~req[r].resp.raised
      /\ req[r].hl \in highlights

\* a create answered 201 although its indexHighlight stored no unit
C10_Witness ==
  \E r \in Slots :
    /\ req[r].kind = "create" /\ req[r].pc = "done"
    /\ req[r].resp.status = 201 /\ req[r].rejected
    /\ AnnotationUnits(req[r].user, req[r].hl.uuid) = {}

====
